---- MODULE Spec2Model ----
(***************************************************************************)
(* napari-3d-counter: the cell-type configuration resolver                 *)
(* (celltype_config.py) and the Count3D counting session (_widget.py,      *)
(* commands.py).                                                           *)
(*                                                                         *)
(* Encodings.                                                              *)
(*   Optional[T]  : <<>> is None, <<x>> is the value x.                    *)
(*   layer names  : [base, suf]; the string base followed by one " [n]"    *)
(*                  for every n of suf, so f"{name} [{n}]" appends n to    *)
(*                  suf and "A [1]" typed by a user is [base "A", suf <<1>>]*)
(*   coordinates  : <<z, y, x>>.                                           *)
(*   slot refs    : a slot is referred to by its index in                  *)
(*                  cell_type_gui_and_data (slots are never removed or     *)
(*                  reordered, so the index is the object's identity).     *)
(***************************************************************************)
EXTENDS Integers, Sequences, FiniteSets, TLC

VARIABLES
    cell_type_gui_and_data, \* Count3D.cell_type_gui_and_data: the slots
    undo_stack,             \* Count3D.undo_stack: slot refs
    pointer_type_state,     \* Count3D.pointer_type_state: the active slot
    gui_lock,               \* Count3D.gui_lock: TRUE when held
    out_of_slice_points,    \* Count3D.out_of_slice_points.data
    pointer,                \* Count3D.pointer.data
    initial_config,         \* Count3D.initial_config
    keymap,                 \* the viewer's key bindings made by the session
    last,                   \* the last operation and what it was given
    history,                \* <<slot, point>> of the pointer points added and
                            \* not undone, oldest first
    edits,                  \* how many direct layer edits the user has made
    imports,                \* how many tables have been imported
    cfg_requests,           \* resolver run: the request list
    cfg_out,                \* resolver run: what process_cell_type_config gave
    cfg_prev,               \* resolver run: the resolved list that was passed
                            \* back as the request list, if one was
    df,                     \* the table save_points_to_df returned last
    layer_points,            \* the data of the points layer the auxiliary
                            \* widgets work on, in halves
    layer_labels,           \* the labels layer the user works with, and
                            \* whether the viewer holds it (present)
    images,                 \* how many image layers the viewer holds
    rs,                     \* the ReconstructSelected widget: run_button
                            \* (enabled or not), output_layer, and the
                            \* workers in flight (the labels layer each has)
    rec,                    \* what the last call of _reconstruct_selected
                            \* gave
    celltypes,              \* the point layers split_on_shapes is given:
                            \* [name, data] of each
    layer_shapes,           \* the shapes layer the user works with: its
                            \* polygons, and whether the viewer holds it
    sos,                    \* the SplitOnShapes widget: run_button, df and
                            \* the workers in flight
    split,                  \* what the last call of split_on_shapes gave
    dock,                   \* the viewer's dock widgets that are Count3D
                            \* sessions, by number; how many sessions were
                            \* made for the viewer, and how many of them
                            \* by get_n3d_counter
    ip,                     \* the IngressPoints widget: its run_button
    layer_source            \* the points layer the user works with: data,
                            \* scale, and whether the viewer holds it

vars ==
    << cell_type_gui_and_data, undo_stack, pointer_type_state, gui_lock,
       out_of_slice_points, pointer, initial_config, keymap, last, history,
       edits, imports, cfg_requests, cfg_out, cfg_prev, df, layer_points,
       layer_labels, images, rs, rec, celltypes, layer_shapes, sos, split,
       dock, ip, layer_source >>

session_vars ==
    << cell_type_gui_and_data, undo_stack, pointer_type_state, gui_lock,
       out_of_slice_points, pointer, initial_config, keymap, last, history,
       edits, imports >>

resolver_vars ==
    << cfg_requests, cfg_out, cfg_prev >>

recon_vars ==
    << layer_points, layer_labels, images, rs, rec >>

split_vars ==
    << celltypes, layer_shapes, sos, split >>

ingress_vars ==
    << dock, ip, layer_source >>

aux_vars ==
    << df, recon_vars, split_vars, ingress_vars >>

(***************************************************************************)
(* Bounds of the model.                                                    *)
(***************************************************************************)
MaxPoints == 3      \* points over all slots
MaxRows == 2        \* rows of an imported table
MaxExternal == 1    \* imports and direct layer edits in one run
MaxRequests == 2    \* length of a request list with every field varied
MaxNameRequests == 4 \* length of a request list with only names varied
MaxKeyRequests == 8 \* length of a request list with only keybinds varied
MaxColorRequests == 8 \* length of a request list with only colors varied
MaxSizeRequests == 3 \* length of a request list with only sizes varied
MaxAuxPoints == 2   \* points of the layer an auxiliary widget works on
\* the most polygons of a shapes layer
MaxShapes ==
    2

MaxRuns == 2        \* runs of an auxiliary widget

None == <<>>
Some(x) == <<x>>

SeqsUpTo(S, n) ==
    UNION {[1..k -> S] : k \in 0..n}

\* seq[:-1]
Front(seq) ==
    SubSeq(seq, 1, Len(seq) - 1)

Range(f) ==
    {f[i] : i \in DOMAIN f}

(***************************************************************************)
(* celltype_config.py                                                      *)
(***************************************************************************)
DEFAULT_KEYMAP_SEQUENCE ==
    <<"q", "w", "e", "r", "t", "y", "">>

DEFAULT_COLOR_SEQUENCE ==
    <<"#ffff00ff", "#ff0000ff", "#00ffffff", "#0000ffff", "#ff00ffff",
      "#00ff00ff", "#ffffffff">>

DEFAULT_OUTLINE_SIZE == 10

DEFAULT_OUT_OF_SLICE_SIZE == 2

DEFAULT_FACE_COLOR ==
    "#ffffff00"

DEFAULT_SYMBOL ==
    "o"

\* 0.05, in hundredths
DEFAULT_EDGE_WIDTH == 5

Name(base) ==
    [base |-> base, suf |-> <<>>]

\* f"{name} [{name_int}]"
NameBracket(name, name_int) ==
    [base |-> name.base, suf |-> Append(name.suf, name_int)]

\* f"Celltype {n+1}" for the 0-based n, given the 1-based position i = n+1
CelltypeNames ==
    <<"Celltype 1", "Celltype 2", "Celltype 3", "Celltype 4", "Celltype 5",
      "Celltype 6", "Celltype 7", "Celltype 8", "Celltype 9", "Celltype 10",
      "Celltype 11", "Celltype 12">>

DefaultName(i) ==
    Name(CelltypeNames[i])

\* matplotlib's to_hex(color, keep_alpha=True) on the spellings used here:
\* single-letter colors are not the palette's pure hues, except "r"
resolve_color(color) ==
    CASE color = "g" -> "#008000ff"
      [] color = "r" -> "#ff0000ff"
      [] color = "c" -> "#00bfbfff"
      [] color = "m" -> "#bf00bfff"
      [] color = "y" -> "#bfbf00ff"
      [] color = "yellow" -> "#ffff00ff"
      [] color = "#FFFF00" -> "#ffff00ff"
      [] OTHER -> color

Raise(e) ==
    [ok |-> FALSE, err |-> e]

Ok(v) ==
    [ok |-> TRUE, val |-> v]

\* the loop of fill_in_defaults: out.append(default_list.pop(0)) for a None,
\* out.append(request) otherwise
RECURSIVE FillLoop(_, _)
FillLoop(requests, default_list) ==
    IF requests = <<>> THEN <<>>
    ELSE IF Head(requests) = None
         THEN <<Head(default_list)>> \o FillLoop(Tail(requests), Tail(default_list))
         ELSE <<Head(requests)[1]>> \o FillLoop(Tail(requests), default_list)

\* a faulty variant: the requested defaults are not discarded
FillWithoutDiscard(requests, defaults) ==
    Ok(FillLoop(requests,
                defaults \o [k \in 1..Len(requests) |-> defaults[Len(defaults)]]))

\* a faulty variant: the defaults are extended with their first entry
FillExtendingWithFirst(requests, defaults) ==
    LET requested == {requests[i][1] : i \in {j \in DOMAIN requests : requests[j] # None}}
        default_list == SelectSeq(defaults, LAMBDA d : d \notin requested)
    IN  IF default_list = <<>> THEN Raise("IndexError")
        ELSE Ok(FillLoop(requests,
                         default_list \o [k \in 1..Len(requests) |-> default_list[1]]))

fill_in_defaults(requests, defaults) ==
    LET requested == {requests[i][1] : i \in {j \in DOMAIN requests : requests[j] # None}}
        used_defaults == Range(defaults) \cap requested
        default_list == SelectSeq(defaults, LAMBDA d : d \notin used_defaults)
    IN  IF default_list = <<>>
        THEN Raise("IndexError")    \* default_list[-1] of an empty list
        ELSE Ok(FillLoop(requests,
                         default_list \o [k \in 1..Len(requests) |->
                                            default_list[Len(default_list)]]))

\* a faulty variant: a duplicate always gets " [1]"
FirstFreeAlwaysOne(name, unique_names, name_int) ==
    1

\* a faulty variant: the search for a free suffix starts at 2
FirstFreeFromTwo(name, unique_names, name_int) ==
    CHOOSE n \in 2..(Len(unique_names) + 2) :
        /\ NameBracket(name, n) \notin Range(unique_names)
        /\ \A m \in 2..(n - 1) : NameBracket(name, m) \in Range(unique_names)

\* the while loop: the smallest name_int >= 1 with name [name_int] unused
RECURSIVE FirstFree(_, _, _)
FirstFree(name, unique_names, name_int) ==
    IF NameBracket(name, name_int) \in Range(unique_names)
    THEN FirstFree(name, unique_names, name_int + 1)
    ELSE name_int

RECURSIVE UniqueNames(_, _)
UniqueNames(names, unique_names) ==
    IF names = <<>> THEN unique_names
    ELSE LET name == Head(names)
         IN  IF name \notin Range(unique_names)
             THEN UniqueNames(Tail(names), Append(unique_names, name))
             ELSE UniqueNames(Tail(names),
                     Append(unique_names,
                            NameBracket(name, FirstFree(name, unique_names, 1))))

process_cell_type_config(cell_type_configs) ==
    LET n_celltype == Len(cell_type_configs)
        request_color_list ==
            [i \in 1..n_celltype |->
                IF cell_type_configs[i].color = None THEN None
                ELSE Some(resolve_color(cell_type_configs[i].color[1]))]
        colors == fill_in_defaults(request_color_list, DEFAULT_COLOR_SEQUENCE)
        keymaps == fill_in_defaults([i \in 1..n_celltype |-> cell_type_configs[i].keybind],
                                    DEFAULT_KEYMAP_SEQUENCE)
        names == [i \in 1..n_celltype |->
                    IF cell_type_configs[i].name = None THEN DefaultName(i)
                    ELSE cell_type_configs[i].name[1]]
        unique_names == UniqueNames(names, <<>>)
        out_of_slice_sizes ==
            [i \in 1..n_celltype |->
                IF cell_type_configs[i].out_of_slice_point_size = None
                THEN DEFAULT_OUT_OF_SLICE_SIZE
                ELSE cell_type_configs[i].out_of_slice_point_size[1]]
        \* DEFAULT_X if c.x is None else c.x
        OrDefault(field, default) == IF field = None THEN default ELSE field[1]
    IN  IF ~colors.ok THEN colors
        ELSE IF ~keymaps.ok THEN keymaps
        ELSE IF \E i \in 1..n_celltype : out_of_slice_sizes[i] # out_of_slice_sizes[1]
        THEN Raise("ValueError")
        ELSE Ok([i \in 1..n_celltype |->
                    [keybind |-> keymaps.val[i],
                     name |-> unique_names[i],
                     color |-> colors.val[i],
                     outline_size |->
                        OrDefault(cell_type_configs[i].outline_size, DEFAULT_OUTLINE_SIZE),
                     out_of_slice_point_size |-> out_of_slice_sizes[i],
                     symbol |->
                        OrDefault(cell_type_configs[i].symbol, DEFAULT_SYMBOL),
                     face_color |->
                        OrDefault(cell_type_configs[i].face_color, DEFAULT_FACE_COLOR),
                     edge_width |->
                        OrDefault(cell_type_configs[i].edge_width, DEFAULT_EDGE_WIDTH)]])

\* CellTypeConfig(...): every field optional, the style fields left out
CellTypeConfig(name, color, keybind, out_of_slice_point_size) ==
    [name |-> name, color |-> color, keybind |-> keybind,
     outline_size |-> None,
     out_of_slice_point_size |-> out_of_slice_point_size,
     face_color |-> None, symbol |-> None, edge_width |-> None]

\* CellTypeConfig(..., outline_size=, face_color=, symbol=, edge_width=)
Styled(config, outline_size, face_color, symbol, edge_width) ==
    [config EXCEPT !.outline_size = outline_size, !.face_color = face_color,
                   !.symbol = symbol, !.edge_width = edge_width]

(***************************************************************************)
(* _widget.py: the session as a value.  The handlers are functions on it;  *)
(* the host calls them back from inside layer mutations, so a handler is   *)
(* the composition of its statements and of the callbacks they raise.      *)
(***************************************************************************)
State ==
    [slots |-> cell_type_gui_and_data,
     undo_stack |-> undo_stack,
     pointer_type_state |-> pointer_type_state,
     gui_lock |-> gui_lock,
     out_of_slice_points |-> out_of_slice_points,
     pointer |-> pointer,
     initial_config |-> initial_config,
     keymap |-> keymap,
     acquires |-> 0,        \* acquisitions of gui_lock by the running handler
     blocked |-> FALSE,     \* an acquire found the lock held
     trace |-> <<>>]        \* the mutations of slot layers by the running
                            \* handler: whether gui_lock was held, and how
                            \* many undo entries handle_data_changed pushed

\* self.gui_lock.acquire(...): an acquire of the held lock fails its assert
\* (blocking=False) or never returns (blocking=True)
acquire(s) ==
    IF s.gui_lock THEN [s EXCEPT !.blocked = TRUE]
    ELSE [s EXCEPT !.gui_lock = TRUE, !.acquires = @ + 1]

\* a faulty variant: the lock stays held
ReleaseForgotten(s) ==
    s

\* self.gui_lock.release()
release(s) ==
    [s EXCEPT !.gui_lock = FALSE]

\* the button before its first setText
NoText == -1

DEFUALT_CONFIG ==
    << CellTypeConfig(Some(Name("Cell type 1")), Some("g"), Some("q"), None),
       CellTypeConfig(Some(Name("Cell type 2")), Some("r"), Some("w"), None),
       CellTypeConfig(Some(Name("Cell type 3")), Some("c"), Some("e"), None),
       CellTypeConfig(Some(Name("Cell type 4")), Some("m"), Some("r"), None) >>

\* cell_type.layer.data[:, 1:] stacked over the slots
update_out_of_slice(s) ==
    LET proj(data) == [k \in 1..Len(data) |-> <<data[k][2], data[k][3]>>]
        RECURSIVE vstack(_)
        vstack(i) == IF i > Len(s.slots) THEN <<>>
                     ELSE proj(s.slots[i].data) \o vstack(i + 1)
    IN  [s EXCEPT !.out_of_slice_points = vstack(1)]

\* CellTypeGuiAndData.update_button_gui: the count shown on the button
update_button_gui(s, i) ==
    IF s.gui_lock THEN s
    ELSE [s EXCEPT !.slots[i].button = Len(s.slots[i].data)]

RECURSIVE UpdateGuiFrom(_, _)
UpdateGuiFrom(s, i) ==
    IF i > Len(s.slots) THEN s
    ELSE UpdateGuiFrom(update_button_gui(s, i), i + 1)

update_gui(s) ==
    UpdateGuiFrom(s, 1)

\* a faulty variant: the intermediate "adding" notification is ignored as well
HandleDataChangedIgnoreAdding(s, i, action) ==
    IF s.gui_lock \/ action \in {"added", "adding"} THEN s
    ELSE LET s1 == update_out_of_slice(s)
             s2 == [s1 EXCEPT !.undo_stack = Append(@, i)]
         IN  update_button_gui(s2, i)

\* a faulty variant: the handler does not look at gui_lock
HandleDataChangedUnderLock(s, i, action) ==
    IF action = "added" THEN s
    ELSE LET s1 == update_out_of_slice(s)
             s2 == [s1 EXCEPT !.undo_stack = Append(@, i)]
         IN  update_button_gui(s2, i)

\* i is the slot whose layer is event.source
handle_data_changed(s, i, action) ==
    IF s.gui_lock THEN s
    ELSE IF action = "added" THEN s
    ELSE LET s1 == update_out_of_slice(s)
             s2 == [s1 EXCEPT !.undo_stack = Append(@, i)]
         IN  update_button_gui(s2, i)

(***************************************************************************)
(* The host's Points layer, as the session uses it: every mutation of a    *)
(* slot layer notifies events.data before and after the change.            *)
(***************************************************************************)
\* the mutation that took s to after is noted in the trace
Traced(s, after, op, i) ==
    [after EXCEPT !.trace =
        Append(@, [op |-> op, slot |-> i, locked |-> s.gui_lock,
                   pushed |-> Len(after.undo_stack) - Len(s.undo_stack)])]

\* layer.add(coords): "adding", the append, "added", then the new points are
\* selected, which sets current_border_color and so raises update_gui
LayerAdd(s, i, coords) ==
    LET s1 == handle_data_changed(s, i, "adding")
        s2 == [s1 EXCEPT !.slots[i].data = @ \o coords]
        s3 == handle_data_changed(s2, i, "added")
    IN  Traced(s, IF coords = <<>> THEN s3 ELSE update_gui(s3), "add", i)

RemoveAt(data, idx) ==
    SelectSeq([k \in 1..Len(data) |-> <<k, data[k]>>], LAMBDA e : e[1] \notin idx)

\* layer.remove_selected() with the points at idx selected
LayerRemove(s, i, idx) ==
    IF idx = {} THEN s
    ELSE LET s1 == handle_data_changed(s, i, "removing")
             kept == RemoveAt(s1.slots[i].data, idx)
             s2 == [s1 EXCEPT !.slots[i].data = [k \in 1..Len(kept) |-> kept[k][2]]]
         IN  Traced(s, handle_data_changed(s2, i, "removed"), "remove", i)

\* the action pair of the data setter: by what was there and what is set
DataSetterActions(prior, data) ==
    IF prior # <<>> /\ data # <<>> THEN <<"changing", "changed">>
    ELSE IF data # <<>> THEN <<"adding", "added">>
    ELSE <<"removing", "removed">>

\* layer.data = data
LayerSetData(s, i, data, actions) ==
    LET s1 == handle_data_changed(s, i, actions[1])
        s2 == [s1 EXCEPT !.slots[i].data = data]
    IN  Traced(s, handle_data_changed(s2, i, actions[2]), "set", i)

\* a faulty variant: the hack's second add is not removed again
NewPointerPointNoRemove(s, event) ==
    IF event.action = "adding" THEN s
    ELSE IF s.gui_lock THEN s
    ELSE LET i == s.pointer_type_state
             s1 == [s EXCEPT !.pointer = <<>>]
             s2 == LayerAdd(s1, i, event.value)
             s3 == LayerAdd(acquire(s2), i, event.value)
         IN  update_out_of_slice(release(s3))

\* a faulty variant: the point is appended with the lock held and the undo
\* entry is pushed by the handler itself
NewPointerPointLocked(s, event) ==
    IF event.action = "adding" THEN s
    ELSE IF s.gui_lock THEN s
    ELSE LET i == s.pointer_type_state
             s1 == acquire([s EXCEPT !.pointer = <<>>])
             s2 == LayerAdd(s1, i, event.value)
             s3 == [release(s2) EXCEPT !.undo_stack = Append(@, i)]
         IN  update_button_gui(update_out_of_slice(s3), i)

\* Count3D.new_pointer_point; self.pointer.data = [] notifies this handler
\* again, twice, with the lock held
RECURSIVE new_pointer_point(_, _)
new_pointer_point(s, event) ==
    IF event.action = "adding" THEN s
    ELSE IF s.gui_lock THEN s
    ELSE LET pointer_coords == event.value
             s1 == acquire(s)
             s2 == new_pointer_point(s1, [action |-> "removing", value |-> s1.pointer])
             s3 == [s2 EXCEPT !.pointer = <<>>]
             s4 == new_pointer_point(s3, [action |-> "removed", value |-> s3.pointer])
             s5 == release(s4)
             i == s5.pointer_type_state
             s6 == LayerAdd(s5, i, pointer_coords)
             s7 == acquire(s6)
             n == Len(s7.slots[i].data)
             s8 == LayerAdd(s7, i, pointer_coords)
             s9 == LayerRemove(s8, i, (n + 1)..Len(s8.slots[i].data))
             s10 == release(s9)
         IN  update_out_of_slice(s10)

\* a faulty variant: undo truncates the active slot's layer
UndoActiveSlot(s) ==
    IF s.undo_stack = <<>> THEN s
    ELSE LET i == s.pointer_type_state
             data == s.slots[i].data
             s1 == [s EXCEPT !.undo_stack = SubSeq(@, 1, Len(@) - 1),
                             !.slots[i].data = SubSeq(data, 1, Len(data) - 1)]
         IN  update_button_gui(update_out_of_slice(s1), i)

\* a faulty variant: no early return, an empty stack stands for the active slot
UndoUnguarded(s) ==
    LET cell_type == IF s.undo_stack = <<>> THEN s.pointer_type_state
                     ELSE s.undo_stack[Len(s.undo_stack)]
        s1 == [s EXCEPT !.undo_stack = IF @ = <<>> THEN <<>> ELSE Front(@)]
        s2 == acquire(s1)
        data == s2.slots[cell_type].data
        shorter == IF data = <<>> THEN <<>> ELSE Front(data)
        s3 == [s2 EXCEPT !.slots[cell_type].data = shorter]
    IN  update_button_gui(update_out_of_slice(release(s3)), cell_type)

\* a faulty variant: undo leaves the button as it was
UndoWithoutRefresh(s) ==
    IF s.undo_stack = <<>> THEN s
    ELSE LET cell_type == s.undo_stack[Len(s.undo_stack)]
             s1 == [s EXCEPT !.undo_stack = SubSeq(@, 1, Len(@) - 1)]
             s2 == acquire(s1)
             data == s2.slots[cell_type].data
             shorter == SubSeq(data, 1, Len(data) - 1)
             s3 == LayerSetData(s2, cell_type, shorter, DataSetterActions(data, shorter))
         IN  update_out_of_slice(release(s3))

\* Count3D.undo
undo(s) ==
    IF s.undo_stack = <<>> THEN s       \* print("No previous changes")
    ELSE LET cell_type == s.undo_stack[Len(s.undo_stack)]
             s1 == [s EXCEPT !.undo_stack = SubSeq(@, 1, Len(@) - 1)]
             s2 == acquire(s1)
             data == s2.slots[cell_type].data
             shorter == SubSeq(data, 1, Len(data) - 1)
             s3 == LayerSetData(s2, cell_type, shorter, DataSetterActions(data, shorter))
             s4 == release(s3)
             s5 == update_out_of_slice(s4)
         IN  update_button_gui(s5, cell_type)

\* a faulty variant: the state change also clears the slot it leaves
ChangeStateClearing(s, state) ==
    [s EXCEPT !.slots[s.pointer_type_state].data = <<>>,
              !.pointer_type_state = state]

\* Count3D.change_state_to
change_state_to(s, state) ==
    [s EXCEPT !.pointer_type_state = state]

(***************************************************************************)
(* The viewer's key bindings: key -> what it runs.                         *)
(***************************************************************************)
Keys ==
    {"q", "w", "e", "r", "t", "y", "u"}

Unbound ==
    [kind |-> "none", slot |-> 0]

BoundToUndo ==
    [kind |-> "undo", slot |-> 0]

BoundToSlot(i) ==
    [kind |-> "slot", slot |-> i]

\* viewer.bind_key(key_bind, func, overwrite): a bound key is refused
\* unless overwrite is set
bind_key(km, key_bind, func, overwrite) ==
    IF km[key_bind] # Unbound /\ ~overwrite THEN Raise("ValueError")
    ELSE Ok([km EXCEPT ![key_bind] = func])

\* Count3D.init_celltype_gui_and_data for the slot that will be slot number i:
\* the new layer, its button, and the key binding (dropped on a collision)
\* a faulty variant: the slot keeps the keybind that could not be bound
InitCelltypeKeepingKeybind(s, config, data, i) ==
    LET bound == IF config.keybind # ""
                 THEN bind_key(s.keymap, config.keybind, BoundToSlot(i), FALSE)
                 ELSE Ok(s.keymap)
    IN  [s |-> [s EXCEPT !.keymap = IF bound.ok THEN bound.val ELSE @],
         out |-> [name |-> config.name,
                  color |-> config.color,
                  keybind |-> config.keybind,
                  size |-> config.outline_size,
                  symbol |-> config.symbol,
                  face_color |-> config.face_color,
                  border_width |-> config.edge_width,
                  data |-> data,
                  button |-> NoText]]

init_celltype_gui_and_data(s, config, data, i) ==
    LET bound == IF config.keybind # ""
                 THEN bind_key(s.keymap, config.keybind, BoundToSlot(i), FALSE)
                 ELSE Ok(s.keymap)
    IN  [s |-> [s EXCEPT !.keymap = IF bound.ok THEN bound.val ELSE @],
         out |-> [name |-> config.name,
                  color |-> config.color,
                  keybind |-> IF bound.ok THEN config.keybind ELSE "",
                  size |-> config.outline_size,
                  symbol |-> config.symbol,
                  face_color |-> config.face_color,
                  border_width |-> config.edge_width,
                  data |-> data,
                  button |-> NoText]]

\* self.cell_type_gui_and_data = [init_celltype_gui_and_data(state) for ...]
RECURSIVE InitSlots(_, _)
InitSlots(s, configs) ==
    IF configs = <<>> THEN s
    ELSE LET r == init_celltype_gui_and_data(s, Head(configs), <<>>, Len(s.slots) + 1)
         IN  InitSlots([r.s EXCEPT !.slots = Append(@, r.out)], Tail(configs))

\* Count3D.__init__(viewer, cell_type_config)
Count3D(cell_type_config) ==
    LET config == IF cell_type_config = None THEN DEFUALT_CONFIG
                  ELSE IF Len(cell_type_config[1]) = 0 THEN DEFUALT_CONFIG
                  ELSE cell_type_config[1]
        resolved == process_cell_type_config(config)
    IN  IF ~resolved.ok THEN resolved
        ELSE LET s0 == [slots |-> <<>>,
                        undo_stack |-> <<>>,
                        pointer_type_state |-> 0,
                        gui_lock |-> FALSE,
                        out_of_slice_points |-> <<>>,
                        pointer |-> <<>>,
                        initial_config |-> resolved.val,
                        keymap |-> [k \in Keys |-> Unbound],
                        acquires |-> 0,
                        blocked |-> FALSE,
                        trace |-> <<>>]
                 s1 == InitSlots(s0, resolved.val)
                 s2 == [s1 EXCEPT !.keymap = bind_key(@, "u", BoundToUndo, TRUE).val]
                 s3 == change_state_to([s2 EXCEPT !.pointer_type_state = 1], 1)
             IN  Ok(update_gui(s3))

\* CellTypeGuiAndData.get_calculated_config: the slot's live configuration
get_calculated_config(slot, out_of_slice_points_size) ==
    Styled(CellTypeConfig(Some(slot.name), Some(slot.color), Some(slot.keybind),
                          Some(out_of_slice_points_size)),
           Some(slot.size), Some(slot.face_color), Some(slot.symbol),
           Some(slot.border_width))

(***************************************************************************)
(* Import and export.  A table is a sequence of rows [cell_type, p].       *)
(***************************************************************************)
\* the labels a table may carry, in the order np.unique sorts them
LabelOrder ==
    <<Name("1"), Name("2"), Name("A")>>

\* the bases of the names a session can hold, as strings compare
BaseOrder ==
    <<"1", "2", "A", "B", "Cell type 1", "Cell type 2", "Cell type 3",
      "Cell type 4", "Celltype 1", "Celltype 10", "Celltype 11", "Celltype 12",
      "Celltype 2", "Celltype 3", "Celltype 4", "Celltype 5", "Celltype 6",
      "Celltype 7", "Celltype 8", "Celltype 9">>

BaseIndex(base) ==
    CHOOSE k \in DOMAIN BaseOrder : BaseOrder[k] = base

\* the ' [n]' suffixes as strings compare: a prefix sorts first
RECURSIVE SufLess(_, _)
SufLess(a, b) ==
    IF b = <<>> THEN FALSE
    ELSE IF a = <<>> THEN TRUE
    ELSE IF Head(a) # Head(b) THEN Head(a) < Head(b)
    ELSE SufLess(Tail(a), Tail(b))

\* a < b for two names as strings
NameLess(a, b) ==
    \/ BaseIndex(a.base) < BaseIndex(b.base)
    \/ a.base = b.base /\ SufLess(a.suf, b.suf)

\* the names of a set, sorted
RECURSIVE Sorted(_)
Sorted(names) ==
    IF names = {} THEN <<>>
    ELSE LET least == CHOOSE a \in names : \A b \in names \ {a} : NameLess(a, b)
         IN  <<least>> \o Sorted(names \ {least})

\* np.unique(data["cell_type"])
UniqueLabels(data) ==
    Sorted({data[k].cell_type : k \in DOMAIN data})

\* a faulty variant: the rows are not selected by their label
RowsOfAnyLabel(data, layer_name) ==
    [k \in 1..Len(data) |-> data[k].p]

\* data.loc[data["cell_type"] == layer_name, ["z", "y", "x"]]
RowsOf(data, layer_name) ==
    LET rows == SelectSeq(data, LAMBDA r : r.cell_type = layer_name)
    IN  [k \in 1..Len(rows) |-> rows[k].p]

\* layers = {ct.layer.name: ct.layer ...}: the slot a name is the key of
SlotNamed(s, layer_name) ==
    CHOOSE i \in 1..Len(s.slots) :
        /\ s.slots[i].name = layer_name
        /\ \A j \in (i + 1)..Len(s.slots) : s.slots[j].name # layer_name

\* a faulty variant: a label naming a slot is moved into it, empty or not
RECURSIVE TransferAlways(_, _, _, _)
TransferAlways(acc, data, duplicate_layers, actions) ==
    IF duplicate_layers = <<>> THEN acc
    ELSE LET layer_name == Head(duplicate_layers)
             s == acc[1]
             i == SlotNamed(s, layer_name)
         IN  TransferAlways(
                << LayerSetData(s, i, RowsOf(data, layer_name), actions),
                   SelectSeq(acc[2], LAMBDA l : l # layer_name) >>,
                data, Tail(duplicate_layers), actions)

\* the first loop of read_points_from_df: a label naming an empty slot is
\* moved into that slot; acc is <<session, layer_names still to add>>
RECURSIVE TransferLoop(_, _, _, _)
TransferLoop(acc, data, duplicate_layers, actions) ==
    IF duplicate_layers = <<>> THEN acc
    ELSE LET layer_name == Head(duplicate_layers)
             s == acc[1]
             i == SlotNamed(s, layer_name)
         IN  IF Len(s.slots[i].data) = 0
             THEN TransferLoop(
                    << LayerSetData(s, i, RowsOf(data, layer_name), actions),
                       SelectSeq(acc[2], LAMBDA l : l # layer_name) >>,
                    data, Tail(duplicate_layers), actions)
             ELSE TransferLoop(acc, data, Tail(duplicate_layers), actions)

\* a faulty variant: a new slot is put in front of the existing ones
RECURSIVE AppendLoopInFront(_, _, _, _)
AppendLoopInFront(s, data, configs, layer_names) ==
    IF configs = <<>> \/ layer_names = <<>> THEN s
    ELSE LET r == init_celltype_gui_and_data(s, Head(configs),
                        RowsOf(data, Head(layer_names)), Len(s.slots) + 1)
         IN  AppendLoopInFront([r.s EXCEPT !.slots = <<r.out>> \o @], data,
                               Tail(configs), Tail(layer_names))

\* the second loop: one new slot per remaining label
RECURSIVE AppendLoop(_, _, _, _)
AppendLoop(s, data, configs, layer_names) ==
    IF configs = <<>> \/ layer_names = <<>> THEN s
    ELSE LET r == init_celltype_gui_and_data(s, Head(configs),
                        RowsOf(data, Head(layer_names)), Len(s.slots) + 1)
         IN  AppendLoop([r.s EXCEPT !.slots = Append(@, r.out)], data,
                        Tail(configs), Tail(layer_names))

\* Count3D.read_points_from_df; actions is the pair of notifications the
\* host raises for the assignment of a table to layer.data
read_points_from_df(s, data, actions) ==
    LET layer_names == UniqueLabels(data)
        duplicate_layers ==
            SelectSeq(layer_names,
                      LAMBDA l : \E i \in 1..Len(s.slots) : s.slots[i].name = l)
        moved == TransferLoop(<<s, layer_names>>, data, duplicate_layers, actions)
        s1 == moved[1]
        to_add == moved[2]
        size == s1.initial_config[1].out_of_slice_point_size
        resolved == process_cell_type_config(
            [i \in 1..Len(s1.slots) |-> get_calculated_config(s1.slots[i], size)]
            \o [k \in 1..Len(to_add) |-> CellTypeConfig(Some(to_add[k]), None, None, None)])
    IN  IF ~resolved.ok THEN s1          \* the exception leaves the session here
        ELSE LET s2 == [s1 EXCEPT !.initial_config = resolved.val]
                 n == Len(resolved.val)
                 \* self.initial_config[-len(layer_names):]
                 tail == IF Len(to_add) = 0 THEN resolved.val
                         ELSE SubSeq(resolved.val, n - Len(to_add) + 1, n)
                 s3 == AppendLoop(s2, data, tail, to_add)
             IN  update_gui(update_out_of_slice(s3))

\* a faulty variant: only the active slot is exported
SaveActiveSlotOnly(s) ==
    LET slot == s.slots[s.pointer_type_state]
    IN  [columns |-> <<"cell_type", "z", "y", "x">>,
         rows |-> [k \in 1..Len(slot.data) |->
                      [cell_type |-> slot.name, p |-> slot.data[k]]]]

\* Count3D.save_points_to_df: a table is its columns and its rows; a row
\* [cell_type, p] holds the label and the (z, y, x) of one point
save_points_to_df(s) ==
    LET \* partial_df.insert(0, "cell_type", cell_type.layer.name)
        columns == <<"cell_type">> \o <<"z", "y", "x">>
        partial_df(i) ==
            [k \in 1..Len(s.slots[i].data) |->
                [cell_type |-> s.slots[i].name, p |-> s.slots[i].data[k]]]
        RECURSIVE concat(_)
        concat(i) ==
            IF i > Len(s.slots) THEN <<>>
            ELSE partial_df(i) \o concat(i + 1)
    IN  [columns |-> columns, rows |-> concat(1)]

\* _reader.csv_file_reader on a viewer with no session docked: a session
\* with one slot per label is made, and the table is read into it
csv_file_reader(data, actions) ==
    LET labels == UniqueLabels(data)
        c3d == Count3D(Some([k \in 1..Len(labels) |->
                                CellTypeConfig(Some(labels[k]), None, None, None)]))
    IN  read_points_from_df(c3d.val, data, actions)

(***************************************************************************)
(* commands.py                                                             *)
(***************************************************************************)
\* a faulty variant: next_cell_type stops at the last slot
NextCellTypeNoWrap(s) ==
    change_state_to(s, IF s.pointer_type_state < Len(s.slots)
                       THEN s.pointer_type_state + 1 ELSE s.pointer_type_state)

\* a faulty variant: one back without the modulo
PrevCellTypeNoModulo(s) ==
    change_state_to(s, s.pointer_type_state - 1)

next_cell_type(s) ==
    LET current_index == s.pointer_type_state - 1
        next_index == (current_index + 1) % Len(s.slots)
    IN  change_state_to(s, next_index + 1)

prev_cell_type(s) ==
    LET current_index == s.pointer_type_state - 1
        next_index == (current_index - 1) % Len(s.slots)
    IN  change_state_to(s, next_index + 1)

(***************************************************************************)
(* aux_functions.py.  A point coordinate is held in halves (3 is 1.5), a   *)
(* labels layer is [data, shape, scale]: data maps the 0-based voxel index *)
(* <<z, y, x>> to a label, scale is the layer's scale along every axis.    *)
(***************************************************************************)
\* np.round(n / m) for m > 0: to the nearest integer, a half to the even one
RoundHalfEven(n, m) ==
    LET q == n \div m
        r == n % m
    IN  IF 2 * r < m THEN q
        ELSE IF 2 * r > m THEN q + 1
        ELSE IF q % 2 = 0 THEN q ELSE q + 1

\* np.round(labels_layer.world_to_data(point_layer.data_to_world(d))).astype(int)
\* with an unscaled points layer
VoxelOf(d, labels_layer) ==
    [a \in 1..3 |-> RoundHalfEven(d[a], 2 * labels_layer.scale)]

\* numpy's index i on an axis of length n: a negative index counts from the
\* end, an index outside -n..n-1 raises IndexError
AxisIndex(i, n) ==
    IF 0 <= i /\ i < n THEN Ok(i)
    ELSE IF -n <= i /\ i < 0 THEN Ok(i + n)
    ELSE Raise("IndexError")

\* labels_layer.data[tuple(coordinates.T)] for one coordinate
LabelAt(labels_layer, c) ==
    LET idx == [a \in 1..3 |-> AxisIndex(c[a], labels_layer.shape[a])]
    IN  IF \E a \in 1..3 : ~idx[a].ok THEN Raise("IndexError")
        ELSE Ok(labels_layer.data[[a \in 1..3 |-> idx[a].val]])

\* the empty dict
NoKwargs ==
    [keys |-> {}, data |-> <<>>]

\* the value of a set voxel: astype(np.uint8) * 255
MaskValue == 255

\* a faulty variant: points on background are not set aside and label 0
\* is reconstructed with the others
ReconstructWithBackground(point_layer, labels_layer) ==
    LET coordinates == [k \in DOMAIN point_layer |-> VoxelOf(point_layer[k], labels_layer)]
        legal == SelectSeq(coordinates,
                    LAMBDA c : \A a \in 1..3 : c[a] <= labels_layer.shape[a])
        looked == [k \in DOMAIN legal |-> LabelAt(labels_layer, legal[k])]
    IN  IF Len(coordinates) = 0 THEN Ok(NoKwargs)
        ELSE IF \E k \in DOMAIN looked : ~looked[k].ok THEN Raise("IndexError")
        ELSE Ok([keys |-> {"data", "scale", "translate", "affine", "name",
                           "blending", "rendering"},
                 data |-> [v \in DOMAIN labels_layer.data |->
                              IF labels_layer.data[v] \in {looked[k].val : k \in DOMAIN looked}
                              THEN MaskValue ELSE 0]])

\* aux_functions._reconstruct_selected; point_layer is the layer's data
_reconstruct_selected(point_layer, labels_layer) ==
    LET coordinates == [k \in DOMAIN point_layer |-> VoxelOf(point_layer[k], labels_layer)]
        \* coordinates[~(coordinates > labels_data.shape).any(axis=1)]
        legal == SelectSeq(coordinates,
                    LAMBDA c : \A a \in 1..3 : c[a] <= labels_layer.shape[a])
        looked == [k \in DOMAIN legal |-> LabelAt(labels_layer, legal[k])]
        \* labels[~(labels == 0)]
        labels == {looked[k].val : k \in DOMAIN looked} \ {0}
    IN  IF Len(coordinates) = 0 THEN Ok(NoKwargs)
        ELSE IF \E k \in DOMAIN looked : ~looked[k].ok THEN Raise("IndexError")
        ELSE Ok([keys |-> {"data", "scale", "translate", "affine", "name",
                           "blending", "rendering"},
                 \* np.isin(labels_data, labels).astype(np.uint8) * 255
                 data |-> [v \in DOMAIN labels_layer.data |->
                              IF labels_layer.data[v] \in labels
                              THEN MaskValue ELSE 0]])

\* shapes_layer.get_value(shape_coord, world=True)[0]: the index of the
\* polygon drawn last among those that hold the position, or None; a
\* polygon is [slice, region], the positions <<y, x>> inside it
get_value(data, yx) ==
    LET hit == {k \in DOMAIN data : yx \in data[k].region}
    IN  IF hit = {} THEN None
        ELSE Some((CHOOSE k \in hit : \A j \in hit : j <= k) - 1)

\* the loops of split_on_shapes over the points of every layer: the first
\* point in no polygon ends the call without a table
RECURSIVE SplitLoop(_, _, _)
SplitLoop(points, data, out_series) ==
    IF points = <<>> THEN Some(out_series)
    ELSE LET point == Head(points)
             shape_idx == get_value(data, <<point.p[2], point.p[3]>>)
         IN  IF shape_idx = None THEN None
             ELSE SplitLoop(Tail(points), data,
                            Append(out_series,
                                   [p |-> point.p, name |-> point.name,
                                    shape_idx |-> shape_idx[1]]))

\* the points of every layer with the name of their layer, layer by layer
RECURSIVE PointsOfLayers(_)
PointsOfLayers(point_layers) ==
    IF point_layers = <<>> THEN <<>>
    ELSE [k \in DOMAIN Head(point_layers).data |->
             [name |-> Head(point_layers).name, p |-> Head(point_layers).data[k]]]
         \o PointsOfLayers(Tail(point_layers))

\* a faulty variant: a point in no polygon is left out of the table
SplitSkipping(point_layers, shapes_layer) ==
    LET points == PointsOfLayers(point_layers)
        rows == [k \in DOMAIN points |->
                    [p |-> points[k].p, name |-> points[k].name,
                     shape_idx |-> get_value(shapes_layer.data,
                                             <<points[k].p[2], points[k].p[3]>>)]]
        found == SelectSeq(rows, LAMBDA r : r.shape_idx # None)
    IN  [returned |-> IF found = <<>> \/ shapes_layer.data = <<>> THEN None
                      ELSE Some([k \in DOMAIN found |->
                                    [found[k] EXCEPT !.shape_idx = @[1]]]),
         shapes_layer |-> shapes_layer]

\* aux_functions.split_on_shapes: what it returns (None or a table of rows
\* [p, name, shape_idx]) and the shapes layer as it leaves it
split_on_shapes(point_layers, shapes_layer) ==
    IF shapes_layer.data = <<>>
    THEN [returned |-> None, shapes_layer |-> shapes_layer]
    ELSE LET slice == shapes_layer.data[1].slice
             \* out_layer[:, :-2] = slice
             out == [k \in DOMAIN shapes_layer.data |->
                        [shapes_layer.data[k] EXCEPT !.slice = slice]]
             out_series == SplitLoop(PointsOfLayers(point_layers), out, <<>>)
         IN  [returned |-> IF out_series = None \/ out_series = Some(<<>>)
                           THEN None ELSE out_series,
              shapes_layer |-> [shapes_layer EXCEPT !.data = out]]

(***************************************************************************)
(* The state machine.                                                      *)
(***************************************************************************)
Coords ==
    {<<0, 1, 2>>, <<5, 6, 7>>}

\* explicit configurations sessions are constructed with
ExplicitConfigs ==
    { Some(<<CellTypeConfig(Some(Name("A")), None, None, None),
             CellTypeConfig(Some(Name("B")), None, None, None)>>),
      Some(<<CellTypeConfig(Some(Name("2")), None, None, None)>>),
      Some(<<CellTypeConfig(None, None, Some("q"), None),
             CellTypeConfig(None, None, Some("q"), None)>>) }

\* Count3D(viewer) and Count3D(viewer, []): the four default slots
DefaultConfigs ==
    {None, Some(<<>>)}

Rows ==
    [cell_type : Range(LabelOrder), p : Coords]

Tables ==
    SeqsUpTo(Rows, MaxRows)

Pending ==
    Raise("pending")

RECURSIVE SumLen(_, _)
SumLen(slots, i) ==
    IF i > Len(slots) THEN 0 ELSE Len(slots[i].data) + SumLen(slots, i + 1)

\* sum(len(slot.layer.data) for slot in slots)
TotalPoints(slots) ==
    SumLen(slots, 1)

Within(s) ==
    TotalPoints(s.slots) <= MaxPoints

Op(op, arg) ==
    [op |-> op, arg |-> arg]

\* the session after a handler
AssignAny(s, l) ==
    /\ cell_type_gui_and_data' = s.slots
    /\ undo_stack' = s.undo_stack
    /\ pointer_type_state' = s.pointer_type_state
    /\ gui_lock' = s.gui_lock
    /\ out_of_slice_points' = s.out_of_slice_points
    /\ pointer' = s.pointer
    /\ initial_config' = s.initial_config
    /\ keymap' = s.keymap
    /\ last' = [op |-> l.op, arg |-> l.arg,
                acquires |-> s.acquires, blocked |-> s.blocked,
                trace |-> s.trace]

Assign(s, l) ==
    /\ Within(s)
    /\ AssignAny(s, l)

Commit(s, l) ==
    /\ Assign(s, l)
    /\ UNCHANGED <<resolver_vars, aux_vars>>

\* a handler of the session runs
Handle(s, l) ==
    /\ Commit(s, l)
    /\ UNCHANGED <<edits, imports>>

\* what was added through the pointer and not undone: a captured point is
\* pushed with the slot that was active, an undo takes the newest one back
Pushed(c) ==
    history' = Append(history, <<pointer_type_state, c>>)

Popped ==
    history' = IF history = <<>> THEN <<>> ELSE Front(history)

\* the user edits a slot layer directly
Edit(s, l) ==
    /\ edits + imports < MaxExternal
    /\ Commit(s, l)
    /\ edits' = edits + 1
    /\ UNCHANGED <<imports, history>>

\* there is no labels layer and no ReconstructSelected widget
NoRecon ==
    /\ layer_points = <<>>
    /\ layer_labels = [present |-> FALSE, layer |-> None]
    /\ images = 0
    /\ rs = [made |-> FALSE, run_button |-> FALSE, output_layer |-> None,
            workers |-> <<>>, errors |-> 0]
    /\ rec = None

\* there is no shapes layer and no SplitOnShapes widget
NoSplit ==
    /\ celltypes = <<>>
    /\ layer_shapes = [present |-> FALSE, data |-> <<>>]
    /\ sos = [made |-> FALSE, run_button |-> FALSE, df |-> None, workers |-> 0]
    /\ split = None

\* the session is the one Count3D docked in its viewer; there is no other
\* points layer and no IngressPoints widget
NoIngress ==
    /\ dock = [dock_widgets |-> <<1>>, made |-> 1, got |-> 0]
    /\ ip = [made |-> FALSE, run_button |-> FALSE]
    /\ layer_source = [present |-> FALSE, data |-> <<>>, scale |-> 1]

\* nothing has been exported and no auxiliary widget exists
NoAux ==
    /\ df = None
    /\ NoRecon
    /\ NoSplit
    /\ NoIngress

ConstructedWith(configs) ==
    /\ \E cell_type_config \in configs :
          LET c3d == Count3D(cell_type_config)
          IN  /\ c3d.ok
              /\ cell_type_gui_and_data = c3d.val.slots
              /\ undo_stack = c3d.val.undo_stack
              /\ pointer_type_state = c3d.val.pointer_type_state
              /\ gui_lock = c3d.val.gui_lock
              /\ out_of_slice_points = c3d.val.out_of_slice_points
              /\ pointer = c3d.val.pointer
              /\ initial_config = c3d.val.initial_config
              /\ keymap = c3d.val.keymap
              /\ last = [op |-> "__init__", arg |-> <<cell_type_config>>,
                          acquires |-> 0, blocked |-> FALSE,
                          trace |-> <<>>]
    /\ history = <<>>
    /\ edits = 0
    /\ imports = 0
    /\ cfg_requests = <<>>
    /\ cfg_out = Pending
    /\ cfg_prev = None

Constructed(configs) ==
    /\ ConstructedWith(configs)
    /\ NoAux

\* a session constructed with an explicit configuration
Init ==
    Constructed(ExplicitConfigs)

\* a session constructed with any configuration, the default included
InitAny ==
    Constructed(ExplicitConfigs \cup DefaultConfigs)

\* the handler called with an event, as the tests call it
NewPointerPoint ==
    \E action \in {"adding", "added"}, c \in Coords :
        /\ Handle(new_pointer_point(State, [action |-> action, value |-> <<c>>]),
                  Op("new_pointer_point", <<action, c>>))
        /\ IF action = "adding" THEN UNCHANGED history ELSE Pushed(c)

\* a click in the viewer: the host adds c to the pointer layer, notifying
\* the handler before ("adding") and after ("added") the append
PointerClick ==
    \E c \in Coords :
        LET s1 == new_pointer_point(State, [action |-> "adding", value |-> pointer])
            s2 == [s1 EXCEPT !.pointer = Append(@, c)]
            s3 == new_pointer_point(s2, [action |-> "added", value |-> s2.pointer])
        IN  /\ Handle(s3, Op("click", <<c>>))
            /\ Pushed(c)

\* the Undo button
Undo ==
    /\ Handle(undo(State), Op("undo", <<>>))
    /\ Popped

\* a slot's button
ChangeStateTo ==
    \E i \in 1..Len(cell_type_gui_and_data) :
        /\ Handle(change_state_to(State, i), Op("change_state_to", <<i>>))
        /\ UNCHANGED history

\* a key bound by the session: "u" or a slot's key
KeyPress ==
    \E k \in Keys :
        /\ keymap[k] # Unbound
        /\ IF keymap[k] = BoundToUndo
           THEN /\ Handle(undo(State), Op("undo", <<k>>))
                /\ Popped
           ELSE /\ Handle(change_state_to(State, keymap[k].slot),
                          Op("change_state_to", <<keymap[k].slot, k>>))
                /\ UNCHANGED history

NextCellType ==
    /\ Handle(next_cell_type(State), Op("next_cell_type", <<>>))
    /\ UNCHANGED history

PrevCellType ==
    /\ Handle(prev_cell_type(State), Op("prev_cell_type", <<>>))
    /\ UNCHANGED history

\* whether the table has a label that names an empty slot
Transfers(data) ==
    \E k \in DOMAIN data, i \in 1..Len(cell_type_gui_and_data) :
        /\ cell_type_gui_and_data[i].name = data[k].cell_type
        /\ cell_type_gui_and_data[i].data = <<>>

\* the "Load cells" button or the csv reader; the host's notifications for
\* the assignment of a table to layer.data are either pair
ReadPointsFromDf ==
    \E data \in Tables, actions \in {<<"adding", "added">>, <<"removing", "removed">>} :
        /\ edits + imports < MaxExternal
        /\ TotalPoints(cell_type_gui_and_data) + Len(data) <= MaxPoints
        /\ actions = <<"adding", "added">> \/ Transfers(data)
        /\ Commit(read_points_from_df(State, data, actions), Op("read_points_from_df", data))
        /\ imports' = imports + 1
        /\ UNCHANGED <<edits, history>>

\* save_points_to_df is called
SavePointsToDf ==
    /\ Assign(State, Op("save_points_to_df", <<>>))
    /\ df' = Some(save_points_to_df(State))
    /\ UNCHANGED <<edits, imports, history, resolver_vars, recon_vars,
                   split_vars, ingress_vars>>

\* the session is exported, and the table is imported into a fresh session
\* of another viewer: a new widget Count3D(viewer, []) as in
\* test_load_save_loop, or the session the csv reader makes
LoadSaveLoop ==
    \E fresh \in {"widget", "reader"},
       actions \in {<<"adding", "added">>, <<"removing", "removed">>} :
        LET table == save_points_to_df(State)
            loaded == IF fresh = "widget"
                      THEN read_points_from_df(Count3D(Some(<<>>)).val,
                                               table.rows, actions)
                      ELSE csv_file_reader(table.rows, actions)
        IN  /\ AssignAny(loaded, Op("load_save_loop", table.rows))
            /\ df' = Some(table)
            /\ history' = <<>>
            /\ UNCHANGED <<edits, imports, resolver_vars, recon_vars,
                   split_vars, ingress_vars>>

\* the user edits a slot's layer in the viewer
HostAdd ==
    \E i \in 1..Len(cell_type_gui_and_data), c \in Coords :
        /\ TotalPoints(cell_type_gui_and_data) < MaxPoints
        /\ Edit(LayerAdd(State, i, <<c>>), Op("layer.add", <<>>))

HostRemove ==
    \E i \in 1..Len(cell_type_gui_and_data) :
        \E k \in 1..Len(cell_type_gui_and_data[i].data) :
            Edit(LayerRemove(State, i, {k}), Op("layer.remove", <<>>))

HostSetData ==
    \E i \in 1..Len(cell_type_gui_and_data), data \in SeqsUpTo(Coords, 2) :
        Edit(LayerSetData(State, i, data,
                            DataSetterActions(cell_type_gui_and_data[i].data, data)),
               Op("layer.data", <<>>))

NextCore ==
    \/ NewPointerPoint
    \/ PointerClick
    \/ Undo
    \/ ChangeStateTo
    \/ KeyPress
    \/ NextCellType
    \/ PrevCellType

Next ==
    \/ NextCore
    \/ ReadPointsFromDf
    \/ HostAdd
    \/ HostRemove
    \/ HostSetData

\* pointer events, undo and state changes only
SpecCore ==
    InitAny /\ [][NextCore]_vars

NextImport ==
    \/ NextCore
    \/ ReadPointsFromDf

\* pointer events, undo, state changes and imports
SpecImport ==
    InitAny /\ [][NextImport]_vars

\* configurations that ask for one key twice
CollidingConfigs ==
    { Some(<< CellTypeConfig(None, None, Some("q"), None),
              CellTypeConfig(None, None, Some("q"), None) >>),
      Some([i \in 1..6 |->
              CellTypeConfig(None, None,
                             Some(<<"q", "w", "e", "r", "t", "t">>[i]), None)]) }

InitKeys ==
    Constructed(CollidingConfigs)

NextKeys ==
    \/ KeyPress
    \/ ReadPointsFromDf

\* the sessions whose configuration asks for one key twice: the keys that
\* are bound are pressed, tables are imported
SpecKeys ==
    InitKeys /\ [][NextKeys]_vars

\* a configuration that asks for one name twice, and one of seven slots,
\* as many as there are palette colors and default keys
LoadConfigs ==
    { Some(<< CellTypeConfig(Some(Name("A")), None, None, None),
              CellTypeConfig(Some(Name("A")), None, None, None) >>),
      Some([i \in DOMAIN DEFAULT_COLOR_SEQUENCE |->
              CellTypeConfig(None, None, None, None)]) }

InitLoad ==
    Constructed(ExplicitConfigs \cup DefaultConfigs \cup LoadConfigs)

NextLoad ==
    \/ PointerClick
    \/ ChangeStateTo
    \/ ReadPointsFromDf

\* points are put into slots, then a table is imported
SpecLoad ==
    InitLoad /\ [][NextLoad]_vars

NextSave ==
    \/ PointerClick
    \/ ChangeStateTo
    \/ SavePointsToDf

\* points are put into slots, and the session is exported
SpecSave ==
    InitAny /\ [][NextSave]_vars

\* a table with one row for each of seven labels
SevenLabels ==
    <<Name("1"), Name("2"), Name("A"), Name("B"), Name("Cell type 1"),
      Name("Cell type 2"), Name("Cell type 3")>>

SevenRows ==
    [k \in DOMAIN SevenLabels |-> [cell_type |-> SevenLabels[k], p |-> <<0, 1, 2>>]]

\* the session the csv reader made of a table of seven labels
Opened ==
    /\ \E s \in {csv_file_reader(SevenRows, <<"adding", "added">>)} :
           /\ cell_type_gui_and_data = s.slots
           /\ undo_stack = s.undo_stack
           /\ pointer_type_state = s.pointer_type_state
           /\ gui_lock = s.gui_lock
           /\ out_of_slice_points = s.out_of_slice_points
           /\ pointer = s.pointer
           /\ initial_config = s.initial_config
           /\ keymap = s.keymap
           /\ last = [op |-> "csv_file_reader", arg |-> SevenRows,
                       acquires |-> s.acquires, blocked |-> s.blocked,
                       trace |-> s.trace]
    /\ history = <<>>
    /\ edits = 0
    /\ imports = 1
    /\ cfg_requests = <<>>
    /\ cfg_out = Pending
    /\ cfg_prev = None
    /\ NoAux

InitLoop ==
    \/ InitLoad
    \/ Opened

NextLoop ==
    \/ PointerClick
    \/ ReadPointsFromDf
    \/ LoadSaveLoop

\* sessions are filled, exported and imported into a fresh session
SpecLoop ==
    InitLoop /\ [][NextLoop]_vars

(***************************************************************************)
(* _widget.py: the ReconstructSelected and SplitOnShapes widgets.          *)
(***************************************************************************)
\* ReconstructSelected.reset_boxes: the boxes are refilled, and the button
\* is enabled when both have a current text
rs_reset_boxes(w, cell_types, labels) ==
    [w EXCEPT !.run_button = (cell_types # <<>> /\ labels.present)]

\* ReconstructSelected.__init__
ReconstructSelected(cell_types, labels) ==
    rs_reset_boxes([made |-> TRUE, run_button |-> TRUE, output_layer |-> None,
                    workers |-> <<>>, errors |-> 0],
                   cell_types, labels)

\* ReconstructSelected.process_output; add_image inserts a layer, which
\* calls reset_boxes
process_output(w, reconstruct_selected_out, cell_types, labels, n_images) ==
    LET w1 == [w EXCEPT !.run_button = TRUE]
    IN  IF reconstruct_selected_out.keys = {}
        THEN [w |-> w1, images |-> n_images]
        ELSE [w |-> [rs_reset_boxes(w1, cell_types, labels)
                        EXCEPT !.output_layer = Some(reconstruct_selected_out.data)],
              images |-> n_images + 1]

\* SplitOnShapes.reset_boxes
sos_reset_boxes(w, shapes) ==
    [w EXCEPT !.run_button = shapes.present]

\* SplitOnShapes.update_table
update_table(w, data) ==
    [w EXCEPT !.df = data, !.run_button = TRUE]

\* SplitOnShapes.__init__: reset_boxes, update_table(None), then the button
\* is disabled
SplitOnShapes(shapes) ==
    [update_table(sos_reset_boxes([made |-> TRUE, run_button |-> TRUE,
                                   df |-> None, workers |-> 0], shapes), None)
        EXCEPT !.run_button = FALSE]

\* the volumes, layers and points the reconstruction is run on
Shape ==
    <<1, 1, 3>>

Voxels ==
    {<<0, 0, x>> : x \in 0..2}

Volumes ==
    {[v \in Voxels |-> row[v[3] + 1]] :
        row \in {<<0, 0, 0>>, <<1, 0, 2>>, <<0, 2, 2>>}}

LabelsLayers ==
    [data : Volumes, shape : {Shape}, scale : {1, 2}]

PointChoices ==
    {<<0, 0, x>> : x \in {-8, -2, -1, 0, 3, 5, 6, 8}}
        \cup {<<2, 0, 0>>, <<0, 4, 0>>}

PointLists ==
    SeqsUpTo(PointChoices, MaxAuxPoints)

\* the polygons and the point layers the split is run on: two polygons
\* that overlap at <<1, 1>>, on different slices
Polygons ==
    { [slice |-> 6, region |-> {<<0, 0>>, <<1, 1>>}],
      [slice |-> 8, region |-> {<<1, 1>>, <<2, 2>>}] }

ShapesData ==
    SeqsUpTo(Polygons, MaxShapes)

SplitPoints ==
    {<<12, 0, 0>>, <<7, 1, 1>>, <<10, 2, 2>>, <<1, 3, 3>>}

PointLayers ==
    { <<>>,
      <<[name |-> Name("Cell type 1"), data |-> <<>>]>> }
    \cup { <<[name |-> Name("Cell type 1"), data |-> d]>> :
              d \in SeqsUpTo(SplitPoints, MaxAuxPoints) }
    \cup { <<[name |-> Name("Cell type 1"), data |-> <<c>>],
             [name |-> Name("Cell type 2"), data |-> <<d>>]>> :
              c, d \in SplitPoints }

CellTypes ==
    [i \in DOMAIN cell_type_gui_and_data |-> cell_type_gui_and_data[i].name]

\* a step of an auxiliary widget or of the host: the session is not touched
AuxOp(op, arg) ==
    /\ last' = [op |-> op, arg |-> arg, acquires |-> 0, blocked |-> FALSE,
                trace |-> <<>>]
    /\ UNCHANGED << cell_type_gui_and_data, undo_stack, pointer_type_state,
                    gui_lock, out_of_slice_points, pointer, initial_config,
                    keymap, history, edits, imports, resolver_vars, df,
                    ingress_vars >>

\* layers.events.inserted and layers.events.removed: every widget that was
\* made resets its boxes
LayersChanged(labels, shapes) ==
    /\ rs' = IF rs.made THEN rs_reset_boxes(rs, CellTypes, labels) ELSE rs
    /\ sos' = IF sos.made THEN sos_reset_boxes(sos, shapes) ELSE sos

\* the ReconstructSelected widget is made in a viewer that holds the
\* default session and no labels layer
InitRecon ==
    /\ ConstructedWith({None})
    /\ df = None
    /\ layer_points \in PointLists
    /\ layer_labels \in [present : {FALSE}, layer : LabelsLayers]
    /\ images = 0
    /\ rs = ReconstructSelected(CellTypes, layer_labels)
    /\ rec = None
    /\ NoSplit
    /\ NoIngress

\* the SplitOnShapes widget is made in a viewer that holds the default
\* session and no shapes layer
InitSplit ==
    /\ ConstructedWith({None})
    /\ df = None
    /\ NoRecon
    /\ celltypes \in PointLayers
    /\ layer_shapes \in [present : {FALSE}, data : ShapesData]
    /\ sos = SplitOnShapes(layer_shapes)
    /\ split = None
    /\ NoIngress

\* the user adds the labels layer
AddLabels ==
    /\ ~layer_labels.present
    /\ layer_labels' = [layer_labels EXCEPT !.present = TRUE]
    /\ LayersChanged(layer_labels', layer_shapes)
    /\ AuxOp("inserted", <<"labels">>)
    /\ UNCHANGED <<layer_points, images, rec, celltypes, layer_shapes, split>>

\* the user removes the labels layer
RemoveLabels ==
    /\ layer_labels.present
    /\ layer_labels' = [layer_labels EXCEPT !.present = FALSE]
    /\ LayersChanged(layer_labels', layer_shapes)
    /\ AuxOp("removed", <<"labels">>)
    /\ UNCHANGED <<layer_points, images, rec, celltypes, layer_shapes, split>>

\* the user adds the shapes layer
AddShapes ==
    /\ ~layer_shapes.present
    /\ layer_shapes' = [layer_shapes EXCEPT !.present = TRUE]
    /\ LayersChanged(layer_labels, layer_shapes')
    /\ AuxOp("inserted", <<"shapes">>)
    /\ UNCHANGED <<layer_points, layer_labels, images, rec, celltypes, split>>

\* the user removes the shapes layer
RemoveShapes ==
    /\ layer_shapes.present
    /\ layer_shapes' = [layer_shapes EXCEPT !.present = FALSE]
    /\ LayersChanged(layer_labels, layer_shapes')
    /\ AuxOp("removed", <<"shapes">>)
    /\ UNCHANGED <<layer_points, layer_labels, images, rec, celltypes, split>>

\* the user adds a layer of another kind
InsertLayer ==
    /\ LayersChanged(layer_labels, layer_shapes)
    /\ AuxOp("inserted", <<"other">>)
    /\ UNCHANGED <<layer_points, layer_labels, images, rec, celltypes,
                   layer_shapes, split>>

\* a faulty variant: the button is disabled before the layers are looked up
RsRunDisablingFirst ==
    \E from \in {"click", "call"} :
        /\ rs.made
        /\ from = "click" => rs.run_button
        /\ IF ~layer_labels.present
           THEN /\ rs.errors < MaxRuns
                /\ AuxOp("ReconstructSelected.run", <<"KeyError">>)
                /\ rs' = [rs EXCEPT !.errors = @ + 1, !.run_button = FALSE]
           ELSE /\ Len(rs.workers) + images < MaxRuns
                /\ AuxOp("ReconstructSelected.run", <<"started", from>>)
                /\ rs' = [rs EXCEPT !.run_button = FALSE,
                                     !.workers = Append(@, layer_labels.layer)]
        /\ UNCHANGED <<layer_points, layer_labels, images, rec, split_vars>>

\* ReconstructSelected.run, from a click on the enabled button or called
\* by a program; errors counts the runs that raised
RsRun ==
    \E from \in {"click", "call"} :
        /\ rs.made
        /\ from = "click" => rs.run_button
        /\ IF ~layer_labels.present
           THEN \* self.viewer.layers[""]
                /\ rs.errors < MaxRuns
                /\ AuxOp("ReconstructSelected.run", <<"KeyError">>)
                /\ rs' = [rs EXCEPT !.errors = @ + 1]
           ELSE /\ Len(rs.workers) + images < MaxRuns
                /\ AuxOp("ReconstructSelected.run", <<"started", from>>)
                /\ rs' = [rs EXCEPT !.run_button = FALSE,
                                     !.workers = Append(@, layer_labels.layer)]
        /\ UNCHANGED <<layer_points, layer_labels, images, rec, split_vars>>

\* a worker of ReconstructSelected ends: its result goes to process_output,
\* or it raised and nothing is called
WorkerReturns ==
    \E k \in DOMAIN rs.workers :
        LET out == _reconstruct_selected(layer_points, rs.workers[k])
            left == [rs EXCEPT !.workers =
                        SubSeq(@, 1, k - 1) \o SubSeq(@, k + 1, Len(@))]
            done == process_output(left, out.val, CellTypes, layer_labels, images)
        IN  /\ rec' = Some(out)
            /\ IF out.ok
               THEN /\ rs' = done.w
                    /\ images' = done.images
                    /\ sos' = IF sos.made /\ done.images # images
                              THEN sos_reset_boxes(sos, layer_shapes) ELSE sos
                    /\ AuxOp("process_output", <<>>)
               ELSE /\ rs' = left
                    /\ UNCHANGED <<images, sos>>
                    /\ AuxOp("errored", <<>>)
            /\ UNCHANGED <<layer_points, layer_labels, celltypes, layer_shapes,
                           split>>

\* aux_functions.reconstruct_selected called by a program:
\* viewer.add_image(**_reconstruct_selected(...)); add_image without data
\* raises
ReconstructSelectedCall ==
    /\ layer_labels.present
    /\ images + Len(rs.workers) < MaxRuns
    /\ LET out == _reconstruct_selected(layer_points, layer_labels.layer)
       IN  /\ rec' = Some(out)
           /\ IF out.ok /\ out.val.keys # {}
              THEN /\ images' = images + 1
                   /\ LayersChanged(layer_labels, layer_shapes)
              ELSE UNCHANGED <<images, rs, sos>>
    /\ AuxOp("reconstruct_selected", <<>>)
    /\ UNCHANGED <<layer_points, layer_labels, celltypes, layer_shapes, split>>

\* SplitOnShapes.run, from a click on the enabled button or called by a
\* program
SosRun ==
    \E from \in {"click", "call"} :
        /\ sos.made
        /\ from = "click" => sos.run_button
        /\ IF ~layer_shapes.present
           THEN \* self.viewer.layers[""]
                /\ AuxOp("SplitOnShapes.run", <<"KeyError">>)
                /\ UNCHANGED sos
           ELSE /\ sos.workers < MaxRuns
                /\ AuxOp("SplitOnShapes.run", <<"started", from>>)
                /\ sos' = [sos EXCEPT !.run_button = FALSE, !.workers = @ + 1]
        /\ UNCHANGED <<recon_vars, celltypes, layer_shapes, split>>

\* a worker of SplitOnShapes ends: update_table gets what split_on_shapes
\* returned
SplitReturns ==
    /\ sos.workers > 0
    /\ LET out == split_on_shapes(celltypes, layer_shapes)
       IN  /\ split' = Some(out.returned)
           /\ layer_shapes' = out.shapes_layer
           /\ sos' = update_table([sos EXCEPT !.workers = @ - 1], out.returned)
    /\ AuxOp("update_table", <<>>)
    /\ UNCHANGED <<recon_vars, celltypes>>

\* aux_functions.split_on_shapes called by a program
SplitOnShapesCall ==
    /\ layer_shapes.present
    /\ LET out == split_on_shapes(celltypes, layer_shapes)
       IN  /\ split' = Some(out.returned)
           /\ layer_shapes' = out.shapes_layer
    /\ AuxOp("split_on_shapes", <<>>)
    /\ UNCHANGED <<recon_vars, celltypes, sos>>

NextRecon ==
    \/ AddLabels
    \/ RemoveLabels
    \/ InsertLayer
    \/ RsRun
    \/ WorkerReturns
    \/ ReconstructSelectedCall

\* the ReconstructSelected widget, its workers and the host's layer events
SpecRecon ==
    InitRecon /\ [][NextRecon]_vars

NextSplit ==
    \/ AddShapes
    \/ RemoveShapes
    \/ InsertLayer
    \/ SosRun
    \/ SplitReturns
    \/ SplitOnShapesCall

\* the SplitOnShapes widget, its workers and the host's layer events
SpecSplit ==
    InitSplit /\ [][NextSplit]_vars

\* both widgets are made in a viewer that holds the default session and
\* neither a labels layer nor a shapes layer
InitAux ==
    /\ ConstructedWith({None})
    /\ df = None
    /\ layer_points \in {<<>>, << <<0, 0, 0>> >>, << <<0, 0, 3>> >>}
    /\ layer_labels \in [present : {FALSE},
                          layer : {l \in LabelsLayers : l.scale = 1}]
    /\ images = 0
    /\ rs = ReconstructSelected(CellTypes, layer_labels)
    /\ rec = None
    /\ celltypes \in {pl \in PointLayers : Len(pl) = 2 /\ pl[1].data = pl[2].data}
    /\ layer_shapes \in [present : {FALSE},
                          data : {d \in ShapesData : Len(d) = 1}]
    /\ sos = SplitOnShapes(layer_shapes)
    /\ split = None
    /\ NoIngress

NextAux ==
    \/ AddLabels
    \/ RemoveLabels
    \/ AddShapes
    \/ RemoveShapes
    \/ InsertLayer
    \/ RsRun
    \/ WorkerReturns
    \/ SosRun
    \/ SplitReturns

\* the two widgets side by side, their workers and the host's layer events
SpecAux ==
    InitAux /\ [][NextAux]_vars

(***************************************************************************)
(* commands.py and _widget.py: get_n3d_counter, the commands and the       *)
(* IngressPoints widget.                                                   *)
(***************************************************************************)
\* a faulty variant: a session is made whether or not one is docked
AlwaysCreate(d, listeners) ==
    LET id == d.made + 1
    IN  [c3d |-> id,
         dock |-> [dock_widgets |-> Append(d.dock_widgets, id), made |-> id,
                   got |-> d.got + 1]]

\* get_n3d_counter: the first docked Count3D, or a new one made by
\* add_plugin_dock_widget.  While the new session is constructed it inserts
\* its layers, and the inserted events reach the connected widgets before
\* the session is docked: listeners are the widgets whose reset_boxes
\* would not return at its resetting_lock
RECURSIVE get_n3d_counter(_, _)
get_n3d_counter(d, listeners) ==
    IF d.dock_widgets # <<>>
    THEN [c3d |-> d.dock_widgets[1], dock |-> d]
    ELSE LET id == d.made + 1
             d1 == [d EXCEPT !.made = id, !.got = @ + 1]
             w == CHOOSE w \in listeners : TRUE
             d2 == IF listeners = {} THEN d1
                   ELSE get_n3d_counter(d1, listeners \ {w}).dock
         IN  [c3d |-> id,
              dock |-> [d2 EXCEPT !.dock_widgets = Append(@, id)]]

\* the widgets connected to the layer events that call get_n3d_counter in
\* reset_boxes
Listeners ==
    {w \in {"rs", "ip"} : (w = "rs" /\ rs.made) \/ (w = "ip" /\ ip.made)}

\* IngressPoints.reset_boxes: the button is enabled when the viewer holds a
\* points layer that is not the session's and the session has a slot
ip_reset_boxes(w, cell_types, source) ==
    [w EXCEPT !.run_button = (source.present /\ cell_types # <<>>)]

\* IngressPoints.__init__
IngressPoints(cell_types, source) ==
    ip_reset_boxes([made |-> TRUE, run_button |-> TRUE], cell_types, source)

\* cell_type_layer.world_to_data(point_layer.data_to_world(d)): the slot
\* layers have scale 1
IngressCoordinate(d, source) ==
    [a \in 1..3 |-> d[a] * source.scale]

\* a faulty variant: the points are assigned to layer.data in one step, which
\* the session's handler does not see as an addition
AddUnrecorded(s, i, coordinates) ==
    [s EXCEPT !.slots[i].data = @ \o coordinates]

\* [cell_type_layer.add(c) for c in coordinates]
RECURSIVE AddEach(_, _, _)
AddEach(s, i, coordinates) ==
    IF coordinates = <<>> THEN s
    ELSE AddEach(LayerAdd(s, i, <<Head(coordinates)>>), i, Tail(coordinates))

\* the source layers and their points
SourcePoints ==
    {<<0, 1, 2>>, <<3, 1, 1>>}

SourceLayers ==
    [present : {FALSE}, data : SeqsUpTo(SourcePoints, MaxAuxPoints),
     scale : {1, 2}]

\* a viewer with or without a docked session, without auxiliary widgets
InitDock ==
    /\ ConstructedWith({None})
    /\ df = None
    /\ NoRecon
    /\ NoSplit
    /\ dock \in { [dock_widgets |-> <<>>, made |-> 0, got |-> 0],
                  [dock_widgets |-> <<1>>, made |-> 1, got |-> 0] }
    /\ ip = [made |-> FALSE, run_button |-> FALSE]
    /\ layer_source \in SourceLayers

\* a step of the viewer that leaves the points of the session alone
DockOp(s, op, c3d) ==
    /\ AssignAny(s, Op(op, <<c3d>>))
    /\ UNCHANGED << history, edits, imports, resolver_vars, df, layer_points,
                    layer_labels, images, rec, split_vars >>

\* the user opens the ReconstructSelected widget
RsInit ==
    /\ ~rs.made
    /\ LET got == get_n3d_counter(dock, Listeners)
       IN  /\ dock' = got.dock
           /\ rs' = ReconstructSelected(CellTypes, layer_labels)
           /\ ip' = IF ip.made /\ dock' # dock
                    THEN ip_reset_boxes(ip, CellTypes, layer_source) ELSE ip
           /\ DockOp(State, "ReconstructSelected", got.c3d)
    /\ UNCHANGED layer_source

\* the user opens the IngressPoints widget
IpInit ==
    /\ ~ip.made
    /\ LET got == get_n3d_counter(dock, Listeners)
       IN  /\ dock' = got.dock
           /\ ip' = IngressPoints(CellTypes, layer_source)
           /\ rs' = IF rs.made /\ dock' # dock
                    THEN rs_reset_boxes(rs, CellTypes, layer_labels) ELSE rs
           /\ DockOp(State, "IngressPoints", got.c3d)
    /\ UNCHANGED layer_source

\* the user adds the points layer: every widget resets its boxes
AddSource ==
    /\ ~layer_source.present
    /\ Listeners # {}
    /\ layer_source' = [layer_source EXCEPT !.present = TRUE]
    /\ LET got == get_n3d_counter(dock, Listeners)
       IN  /\ dock' = got.dock
           /\ rs' = IF rs.made THEN rs_reset_boxes(rs, CellTypes, layer_labels)
                    ELSE rs
           /\ ip' = IF ip.made
                    THEN ip_reset_boxes(ip, CellTypes, layer_source') ELSE ip
           /\ DockOp(State, "reset_boxes", got.c3d)

\* the user removes the points layer
RemoveSource ==
    /\ layer_source.present
    /\ Listeners # {}
    /\ layer_source' = [layer_source EXCEPT !.present = FALSE]
    /\ LET got == get_n3d_counter(dock, Listeners)
       IN  /\ dock' = got.dock
           /\ rs' = IF rs.made THEN rs_reset_boxes(rs, CellTypes, layer_labels)
                    ELSE rs
           /\ ip' = IF ip.made
                    THEN ip_reset_boxes(ip, CellTypes, layer_source') ELSE ip
           /\ DockOp(State, "reset_boxes", got.c3d)

\* commands.next_cell_type and commands.prev_cell_type
Command ==
    \E cmd \in {"next_cell_type", "prev_cell_type"} :
        LET got == get_n3d_counter(dock, Listeners)
            s == IF cmd = "next_cell_type" THEN next_cell_type(State)
                 ELSE prev_cell_type(State)
        IN  /\ dock' = got.dock
            /\ rs' = IF rs.made /\ dock' # dock
                     THEN rs_reset_boxes(rs, CellTypes, layer_labels) ELSE rs
            /\ ip' = IF ip.made /\ dock' # dock
                     THEN ip_reset_boxes(ip, CellTypes, layer_source) ELSE ip
            /\ DockOp(s, cmd, got.c3d)
            /\ UNCHANGED layer_source

\* IngressPoints.run, from a click on the enabled button or called by a
\* program, with slot i selected in cell_type_box
IpRun ==
    \E from \in {"click", "call"}, i \in 1..Len(cell_type_gui_and_data) :
        /\ ip.made
        /\ from = "click" => ip.run_button
        /\ IF ~layer_source.present
           THEN \* self.viewer.layers[""]
                /\ AssignAny(State, Op("IngressPoints.run", <<"KeyError">>))
                /\ UNCHANGED history
           ELSE LET coordinates == [k \in DOMAIN layer_source.data |->
                                       IngressCoordinate(layer_source.data[k],
                                                         layer_source)]
                IN  /\ Assign(AddEach(State, i, coordinates),
                              Op("IngressPoints.run", <<i>>))
                    /\ history' = history \o
                                  [k \in DOMAIN coordinates |-> <<i, coordinates[k]>>]
        /\ UNCHANGED << edits, imports, resolver_vars, df, recon_vars,
                        split_vars, ingress_vars >>

\* the Undo button of the docked session
UndoDocked ==
    /\ dock.dock_widgets # <<>>
    /\ Undo

NextDock ==
    \/ RsInit
    \/ IpInit
    \/ AddSource
    \/ RemoveSource
    \/ Command
    \/ IpRun
    \/ UndoDocked

\* get_n3d_counter called by the commands and the auxiliary widgets, and
\* the IngressPoints widget
SpecDock ==
    InitDock /\ [][NextDock]_vars

\* every session operation and every direct edit of a slot layer
Spec ==
    Init /\ [][Next]_vars

\* ---------------------------------------------------------------------
\* The resolver on its own: a request list is drawn, then resolved.

NameRequests ==
    {None, Some(Name("A")), Some(NameBracket(Name("A"), 1)),
     Some(Name("Celltype 2"))}

KeyRequests ==
    {None, Some("q"), Some("")}

\* request lists in which only the names vary
NameLists ==
    {[i \in DOMAIN names |-> CellTypeConfig(names[i], None, None, None)] :
        names \in SeqsUpTo(NameRequests, MaxNameRequests)}

\* request lists in which only the keybinds vary
KeyLists ==
    {[i \in DOMAIN keys |-> CellTypeConfig(None, None, keys[i], None)] :
        keys \in SeqsUpTo(KeyRequests, MaxKeyRequests)}

\* request lists in which every field varies
MixedRequests ==
    {CellTypeConfig(name, color, keybind, size) :
        name \in {None, Some(Name("A"))},
        color \in {None, Some("y"), Some("yellow")},
        keybind \in {None, Some("q")},
        size \in {None, Some(10)}}

MixedLists ==
    SeqsUpTo(MixedRequests, MaxRequests)

\* a palette color by name and a color off the palette
ColorRequests ==
    {None, Some("yellow"), Some("#123456ff")}

\* request lists in which only the colors vary
ColorLists ==
    {[i \in DOMAIN colors |-> CellTypeConfig(None, colors[i], None, None)] :
        colors \in SeqsUpTo(ColorRequests, MaxColorRequests)}

SizeRequests ==
    {None, Some(DEFAULT_OUT_OF_SLICE_SIZE), Some(10), Some(100)}

\* request lists in which only out_of_slice_point_size varies
SizeLists ==
    {[i \in DOMAIN sizes |-> CellTypeConfig(None, None, None, sizes[i])] :
        sizes \in SeqsUpTo(SizeRequests, MaxSizeRequests)}

\* request lists in which the style fields are given or left out
StyleLists ==
    {[i \in DOMAIN given |->
        IF given[i]
        THEN Styled(CellTypeConfig(None, None, None, None),
                    Some(7), Some("#ff000080"), Some("x"), Some(10))
        ELSE CellTypeConfig(None, None, None, None)] :
        given \in SeqsUpTo(BOOLEAN, MaxRequests)}

\* request lists that ask for every default key, as the live configuration
\* of seven slots does, with the sizes given or left out
ExhaustingLists ==
    {[i \in DOMAIN DEFAULT_KEYMAP_SEQUENCE |->
        CellTypeConfig(None, None, Some(DEFAULT_KEYMAP_SEQUENCE[i]), sizes[i])] :
        sizes \in [DOMAIN DEFAULT_KEYMAP_SEQUENCE -> {None, Some(10)}]}

\* the request lists of test_celltype_config.py that the sets above lack
TestLists ==
    { << CellTypeConfig(Some(Name("Cell1")), None, None, None),
         CellTypeConfig(Some(Name("Cell1")), None, None, None) >> }

RequestLists ==
    NameLists \cup KeyLists \cup MixedLists \cup ColorLists \cup SizeLists
        \cup StyleLists \cup ExhaustingLists \cup TestLists

\* a resolved list handed to process_cell_type_config as its request list:
\* every field is given
AsRequests(resolved) ==
    [i \in DOMAIN resolved |->
        [f \in DOMAIN resolved[i] |-> Some(resolved[i][f])]]

\* no session has been constructed
InitCfg ==
    /\ cfg_requests \in RequestLists
    /\ cfg_out = Pending
    /\ cfg_prev = None
    /\ cell_type_gui_and_data = <<>>
    /\ undo_stack = <<>>
    /\ pointer_type_state = 0
    /\ gui_lock = FALSE
    /\ out_of_slice_points = <<>>
    /\ pointer = <<>>
    /\ initial_config = <<>>
    /\ keymap = [k \in Keys |-> Unbound]
    /\ last = [op |-> "none", arg |-> <<>>, acquires |-> 0, blocked |-> FALSE,
               trace |-> <<>>]
    /\ history = <<>>
    /\ edits = 0
    /\ imports = 0
    /\ NoAux

\* process_cell_type_config(cfg_requests) returns or raises
Resolve ==
    /\ cfg_out = Pending
    /\ cfg_out' = process_cell_type_config(cfg_requests)
    /\ UNCHANGED <<session_vars, cfg_requests, cfg_prev, aux_vars>>

\* the resolved list goes back in as the request list
PassBack ==
    /\ cfg_out.ok
    /\ cfg_prev = None
    /\ cfg_prev' = Some(cfg_out.val)
    /\ cfg_requests' = AsRequests(cfg_out.val)
    /\ cfg_out' = Pending
    /\ UNCHANGED <<session_vars, aux_vars>>

NextCfg ==
    \/ Resolve
    \/ PassBack

SpecCfg ==
    InitCfg /\ [][NextCfg]_vars

\* ---------------------------------------------------------------------
\* Properties.

\* C1: in a session constructed without points, after every sequence of
\* new_pointer_point, undo and change_state_to the undo stack is exactly as
\* long as the slot layers together hold points.
C1_UndoStackCountsPoints ==
    Len(undo_stack) = TotalPoints(cell_type_gui_and_data)

\* points in two slots, three added and one of them undone
C1_Witness ==
    /\ last.op = "undo"
    /\ Len(undo_stack) = 2
    /\ \E i, j \in DOMAIN cell_type_gui_and_data :
          /\ i # j
          /\ cell_type_gui_and_data[i].data # <<>>
          /\ cell_type_gui_and_data[j].data # <<>>

\* C2: whenever the lock is free, after any sequence of session operations,
\* imports and direct edits of the slot layers included, the undo stack is
\* as long as the slot layers together hold points.
C2_UndoStackCountsPointsAfterAnything ==
    ~gui_lock =>
        TotalPoints(cell_type_gui_and_data) = Len(undo_stack)

\* the points of history that went to slot i, oldest first
RECURSIVE PointsOf(_, _)
PointsOf(h, i) ==
    IF h = <<>> THEN <<>>
    ELSE IF h[1][1] = i THEN <<h[1][2]>> \o PointsOf(Tail(h), i)
    ELSE PointsOf(Tail(h), i)

\* C3: undo takes back the most recently added point that was not undone
\* yet, from the slot that received it, whatever slot is active: each slot
\* holds exactly the points added to it and not undone, in the order they
\* were added, and the undo stack names their slots in that order (so three
\* points added to a slot and one undo leave its first two points and a
\* stack of length 2).
C3_UndoTakesBackNewestFirst ==
    /\ \A i \in DOMAIN cell_type_gui_and_data :
          cell_type_gui_and_data[i].data = PointsOf(history, i)
    /\ undo_stack = [k \in DOMAIN history |-> history[k][1]]

\* three points added to the first slot, the third undone while another
\* slot is active
C3_Witness ==
    /\ last.op = "undo"
    /\ pointer_type_state # 1
    /\ Len(cell_type_gui_and_data[1].data) = 2
    /\ undo_stack = <<1, 1>>

\* the data of every slot but slot i is what it was
OthersKeep(i) ==
    \A j \in DOMAIN cell_type_gui_and_data :
        j # i => cell_type_gui_and_data'[j].data = cell_type_gui_and_data[j].data

\* one point, c, went to the end of the active slot and nothing else moved
OnePointAdded(c) ==
    /\ DOMAIN cell_type_gui_and_data' = DOMAIN cell_type_gui_and_data
    /\ cell_type_gui_and_data'[pointer_type_state].data =
          Append(cell_type_gui_and_data[pointer_type_state].data, c)
    /\ OthersKeep(pointer_type_state)
    /\ pointer' = <<>>
    /\ undo_stack' = Append(undo_stack, pointer_type_state)
    /\ pointer_type_state' = pointer_type_state
    /\ gui_lock' = FALSE

\* no layer, nor the undo stack, nor the active slot, nor the lock moved
SessionKeeps ==
    UNCHANGED <<cell_type_gui_and_data, undo_stack, pointer_type_state,
                gui_lock, out_of_slice_points, pointer>>

\* C4: with the lock free, new_pointer_point called with an event other than
\* 'adding' whose value ends in c leaves the active slot with one more
\* point, c, last; every other slot as it was; the pointer layer empty; and
\* the undo stack one longer, ending in the active slot.  An 'adding' event
\* changes nothing, and the events raised while the handler holds the lock
\* change nothing, so that one click yields exactly one point.
C4_OnePointPerCapture ==
    [][/\ (last'.op = "new_pointer_point" /\ last'.arg[1] = "added")
            => OnePointAdded(last'.arg[2])
       /\ (last'.op = "new_pointer_point" /\ last'.arg[1] = "adding")
            => SessionKeeps
       /\ last'.op = "click" => OnePointAdded(last'.arg[1])]_vars

\* a click put a second point after the first in the second slot
C4_Witness ==
    /\ last.op = "click"
    /\ pointer_type_state = 2
    /\ Len(cell_type_gui_and_data[2].data) = 2
    /\ cell_type_gui_and_data[2].data[2] = last.arg[1]
    /\ cell_type_gui_and_data[2].data[1] # last.arg[1]
    /\ pointer = <<>>
    /\ last.acquires = 2

\* C5: undo on an empty undo stack does nothing: no layer changes, the stack
\* stays empty, the active slot stays, and the lock is not taken, also when
\* the slots hold points that an import put there.
C5_UndoOnEmptyStack ==
    [][(last'.op = "undo" /\ undo_stack = <<>>)
          => /\ SessionKeeps
             /\ UNCHANGED <<initial_config, keymap>>
             /\ undo_stack' = <<>>
             /\ ~gui_lock'
             /\ last'.acquires = 0]_vars

\* an undo found the stack empty while a slot held imported points
C5_Witness ==
    /\ last.op = "undo"
    /\ last.acquires = 0
    /\ undo_stack = <<>>
    /\ imports = 1
    /\ TotalPoints(cell_type_gui_and_data) > 0

\* C6: the active slot is the first slot right after construction, of the
\* four default slots when the configuration is None or empty, and it is one
\* of the session's slots after every change_state_to (button, key, next or
\* previous), new_pointer_point, undo and read_points_from_df.
C6_ActiveSlotIsASlot ==
    /\ pointer_type_state \in DOMAIN cell_type_gui_and_data
    /\ last.op = "__init__" =>
          /\ pointer_type_state = 1
          /\ last.arg[1] \in DefaultConfigs =>
                /\ Len(cell_type_gui_and_data) = Len(DEFUALT_CONFIG)
                /\ Len(cell_type_gui_and_data) = 4

\* the active slot is one that an import appended to the default four
C6_Witness ==
    /\ imports = 1
    /\ Len(cell_type_gui_and_data) > 4
    /\ pointer_type_state = Len(cell_type_gui_and_data)
    /\ last.op = "undo"

\* this step is new_pointer_point taking a point in
Captured ==
    \/ last'.op = "click"
    \/ last'.op = "new_pointer_point" /\ last'.arg[1] = "added"

\* C7: change_state_to(slot) makes slot the active one and changes nothing
\* else: no slot's data, not the undo stack, not the out-of-slice mirrors,
\* not the lock; and the next new_pointer_point puts its point in slot.
C7_ChangeStateOnlySelects ==
    [][/\ last'.op = "change_state_to" =>
            /\ pointer_type_state' = last'.arg[1]
            /\ UNCHANGED <<cell_type_gui_and_data, undo_stack,
                           out_of_slice_points, gui_lock, pointer>>
       /\ (last.op = "change_state_to" /\ Captured) =>
            /\ Len(cell_type_gui_and_data'[last.arg[1]].data) =
                  Len(cell_type_gui_and_data[last.arg[1]].data) + 1
            /\ OthersKeep(last.arg[1])]_vars

\* the point captured after a change to the second slot went there, the
\* first slot keeping its own
C7_Witness ==
    /\ last.op = "click"
    /\ pointer_type_state = 2
    /\ undo_stack = <<1, 2>>
    /\ cell_type_gui_and_data[1].data # <<>>
    /\ cell_type_gui_and_data[2].data = <<last.arg[1]>>

\* the active slot after k next_cell_type (prev_cell_type) calls
RECURSIVE NextTimes(_, _)
NextTimes(s, k) ==
    IF k = 0 THEN s ELSE NextTimes(next_cell_type(s), k - 1)

RECURSIVE PrevTimes(_, _)
PrevTimes(s, k) ==
    IF k = 0 THEN s ELSE PrevTimes(prev_cell_type(s), k - 1)

\* C8: with n slots and slot i (0-based) active, next_cell_type activates
\* slot (i+1) mod n and prev_cell_type slot (i-1) mod n; n calls of either
\* return to the start; prev_cell_type undoes next_cell_type; also after an
\* import added slots.
C8_NextPrevAreModular ==
    LET n == Len(cell_type_gui_and_data)
        i == pointer_type_state
    IN  /\ next_cell_type(State).pointer_type_state = (IF i = n THEN 1 ELSE i + 1)
        /\ prev_cell_type(State).pointer_type_state = (IF i = 1 THEN n ELSE i - 1)
        /\ NextTimes(State, n) = State
        /\ PrevTimes(State, n) = State
        /\ \A k \in 1..(n - 1) : NextTimes(State, k) # State
        /\ prev_cell_type(next_cell_type(State)) = State
        /\ next_cell_type(prev_cell_type(State)) = State

\* next_cell_type wrapped from the last of five slots, one of them imported,
\* to the first
C8_Witness ==
    /\ last.op = "next_cell_type"
    /\ imports = 1
    /\ Len(cell_type_gui_and_data) = 5
    /\ pointer_type_state = 1

\* C9: whatever names a request list asks for, unnamed entries, repeated
\* names and names of the form 'X [k]' included, the names of the resolved
\* list are pairwise distinct.
C9_ResolvedNamesDistinct ==
    cfg_out.ok =>
        \A i, j \in DOMAIN cfg_out.val :
            i # j => cfg_out.val[i].name # cfg_out.val[j].name

\* 'A', 'A [1]' and 'A' again were asked for: the second 'A' had to pass
\* over the taken 'A [1]'
C9_Witness ==
    /\ cfg_out.ok
    /\ Len(cfg_requests) >= 3
    /\ \E i, j, k \in DOMAIN cfg_out.val :
          /\ cfg_requests[i].name = Some(Name("A"))
          /\ cfg_requests[j].name = Some(NameBracket(Name("A"), 1))
          /\ cfg_requests[k].name = Some(Name("A"))
          /\ i # k
          /\ cfg_out.val[k].name = NameBracket(Name("A"), 2)

\* C10: whatever keybinds a request list asks for, the same key asked for
\* twice and '' asked for included, the keybinds of the resolved list are
\* pairwise distinct except for ''.
C10_ResolvedKeybindsDistinct ==
    cfg_out.ok =>
        \A i, j \in DOMAIN cfg_out.val :
            (i # j /\ cfg_out.val[i].keybind = cfg_out.val[j].keybind)
                => cfg_out.val[i].keybind = ""

\* the out_of_slice_point_size of request i once a missing one is defaulted
SizeAsked(i) ==
    IF cfg_requests[i].out_of_slice_point_size = None
    THEN DEFAULT_OUT_OF_SLICE_SIZE
    ELSE cfg_requests[i].out_of_slice_point_size[1]

SizesDisagree ==
    \E i, j \in DOMAIN cfg_requests : SizeAsked(i) # SizeAsked(j)

\* C11: process_cell_type_config fails with the configuration error exactly
\* when the out_of_slice_point_size values, the missing ones defaulted, are
\* not all equal; when it succeeds every resolved entry has the same
\* out_of_slice_point_size; when it fails it returns no list.
C11_FailsExactlyOnSizeMismatch ==
    cfg_out # Pending =>
        /\ (cfg_out = Raise("ValueError")) <=> SizesDisagree
        /\ cfg_out.ok =>
              \A i, j \in DOMAIN cfg_out.val :
                  cfg_out.val[i].out_of_slice_point_size =
                      cfg_out.val[j].out_of_slice_point_size
        /\ ~cfg_out.ok => DOMAIN cfg_out = {"ok", "err"}

\* C12: resolution is idempotent: when process_cell_type_config succeeds on
\* x, passing its output back as the request list succeeds and returns the
\* same list, names, colors, keybinds and style fields alike, whatever the
\* length of the list, seven or more included.
C12_ResolveIsIdempotent ==
    (cfg_prev # None /\ cfg_out # Pending) => cfg_out = Ok(cfg_prev[1])

\* the name request i asks for: its own, or 'Celltype i'
NameAsked(i) ==
    IF cfg_requests[i].name = None THEN DefaultName(i)
    ELSE cfg_requests[i].name[1]

\* the names finalized before position i
NamesBefore(i) ==
    {cfg_out.val[j].name : j \in 1..(i - 1)}

\* C13: a request without a name asks for 'Celltype i', i its 1-based
\* position; in list order, a name not among those finalized before it is
\* kept, and one already among them becomes name + ' [n]' for the smallest
\* n >= 1 whose string is not among them.  Two requests named 'Cell1'
\* resolve to 'Cell1' and 'Cell1 [1]'.
C13_NamesResolveInOrder ==
    cfg_out.ok =>
        /\ \A i \in DOMAIN cfg_out.val :
              LET name == cfg_out.val[i].name
              IN  IF NameAsked(i) \notin NamesBefore(i)
                  THEN name = NameAsked(i)
                  ELSE \E n \in 1..i :
                          /\ name = NameBracket(NameAsked(i), n)
                          /\ name \notin NamesBefore(i)
                          /\ \A m \in 1..(n - 1) :
                                NameBracket(NameAsked(i), m) \in NamesBefore(i)
        /\ [i \in DOMAIN cfg_requests |-> cfg_requests[i].name]
                = <<Some(Name("Cell1")), Some(Name("Cell1"))>>
             => [i \in DOMAIN cfg_out.val |-> cfg_out.val[i].name]
                    = <<Name("Cell1"), NameBracket(Name("Cell1"), 1)>>

\* an unnamed request found its 'Celltype i' taken by an earlier request
C13_Witness ==
    /\ cfg_out.ok
    /\ \E i \in DOMAIN cfg_out.val :
          /\ cfg_requests[i].name = None
          /\ cfg_out.val[i].name = NameBracket(DefaultName(i), 1)

\* the color request i asks for, as the hex string it stands for
ColorAsked(i) ==
    resolve_color(cfg_requests[i].color[1])

ColorsAsked ==
    {ColorAsked(i) : i \in {j \in DOMAIN cfg_requests : cfg_requests[j].color # None}}

\* the palette without the colors asked for
PaletteLeft ==
    SelectSeq(DEFAULT_COLOR_SEQUENCE, LAMBDA d : d \notin ColorsAsked)

\* how many of the requests up to i ask for no color
ColorlessUpTo(i) ==
    Cardinality({j \in 1..i : cfg_requests[j].color = None})

\* C14: the slots with no requested color receive, in list order, the
\* palette colors (yellow, red, cyan, blue, magenta, green, white) that no
\* request of the call asks for, the last of them repeating once they run
\* out; a requested color stays in its position; so no defaulted color is a
\* requested one.  Requests (none, yellow, none) give (red, yellow, cyan).
C14_ColorsSkipRequested ==
    cfg_out.ok =>
        /\ \A i \in DOMAIN cfg_out.val :
              IF cfg_requests[i].color = None
              THEN /\ cfg_out.val[i].color =
                        PaletteLeft[IF ColorlessUpTo(i) <= Len(PaletteLeft)
                                    THEN ColorlessUpTo(i) ELSE Len(PaletteLeft)]
                   /\ cfg_out.val[i].color \notin ColorsAsked
              ELSE cfg_out.val[i].color = ColorAsked(i)
        /\ DEFAULT_COLOR_SEQUENCE =
              <<"#ffff00ff", "#ff0000ff", "#00ffffff", "#0000ffff",
                "#ff00ffff", "#00ff00ff", "#ffffffff">>
        /\ [i \in DOMAIN cfg_requests |-> cfg_requests[i].color]
                = <<None, Some("yellow"), None>>
             => [i \in DOMAIN cfg_out.val |-> cfg_out.val[i].color]
                    = <<"#ff0000ff", "#ffff00ff", "#00ffffff">>

\* (none, yellow, none) was resolved
C14_Witness ==
    /\ cfg_out.ok
    /\ cfg_prev = None
    /\ [i \in DOMAIN cfg_requests |-> cfg_requests[i].color]
          = <<None, Some("yellow"), None>>
    /\ cfg_out.val[1].color = "#ff0000ff"

\* every request of the list specifies nothing
NothingAsked ==
    /\ cfg_requests # <<>>
    /\ \A i \in DOMAIN cfg_requests :
          cfg_requests[i] = CellTypeConfig(None, None, None, None)

\* entry i of a default sequence extended by its last entry
Extended(defaults, i) ==
    defaults[IF i <= Len(defaults) THEN i ELSE Len(defaults)]

\* C15: k >= 1 requests that specify nothing resolve to the first min(k, 7)
\* palette colors in order followed by white for the rest, and to the first
\* min(k, 7) of the keys (q, w, e, r, t, y, '') followed by '' for the rest;
\* three such requests give (yellow, red, cyan) and (q, w, e).
C15_EmptyRequestsTakeDefaultsInOrder ==
    (NothingAsked /\ cfg_out # Pending) =>
        /\ cfg_out.ok
        /\ Len(cfg_out.val) = Len(cfg_requests)
        /\ \A i \in DOMAIN cfg_out.val :
              /\ cfg_out.val[i].color = Extended(DEFAULT_COLOR_SEQUENCE, i)
              /\ cfg_out.val[i].keybind = Extended(DEFAULT_KEYMAP_SEQUENCE, i)
              /\ i > 7 => /\ cfg_out.val[i].color = "#ffffffff"
                          /\ cfg_out.val[i].keybind = ""
        /\ Len(cfg_requests) = 3 =>
              /\ [i \in 1..3 |-> cfg_out.val[i].color]
                    = <<"#ffff00ff", "#ff0000ff", "#00ffffff">>
              /\ [i \in 1..3 |-> cfg_out.val[i].keybind] = <<"q", "w", "e">>

\* eight requests that specify nothing were resolved: the eighth repeats
\* white and has no key
C15_Witness ==
    /\ NothingAsked
    /\ Len(cfg_requests) = 8
    /\ cfg_out.ok
    /\ cfg_out.val[8].color = cfg_out.val[7].color
    /\ cfg_out.val[8].keybind = ""

KeysAsked ==
    {cfg_requests[j].keybind[1] :
        j \in {k \in DOMAIN cfg_requests : cfg_requests[k].keybind # None}}

\* the default keys q, w, e, r, t, y that no request asks for
KeysLeft ==
    SelectSeq(DEFAULT_KEYMAP_SEQUENCE, LAMBDA d : d # "" /\ d \notin KeysAsked)

\* how many of the requests up to i ask for no keybind
KeylessUpTo(i) ==
    Cardinality({j \in 1..i : cfg_requests[j].keybind = None})

\* C16: the slots with no requested keybind get, in list order, the default
\* keys q, w, e, r, t, y that no request asks for, and once these are all
\* handed out every further such slot gets '', never a key that another slot
\* has; also when some request asks for '' itself.
C16_KeybindsRunOutToEmpty ==
    cfg_out.ok =>
        \A i \in DOMAIN cfg_out.val :
            cfg_requests[i].keybind = None =>
                /\ cfg_out.val[i].keybind =
                      (IF KeylessUpTo(i) <= Len(KeysLeft)
                       THEN KeysLeft[KeylessUpTo(i)] ELSE "")
                /\ \A j \in DOMAIN cfg_out.val :
                      (j # i /\ cfg_out.val[j].keybind = cfg_out.val[i].keybind)
                          => cfg_out.val[i].keybind = ""

\* C17: a keybind collision is not fatal: when a slot is created with a key
\* that is bound already (two requests with keybind 'q', say), construction
\* or import completes, the earlier binding stays and the later slot records
\* the keybind ''.  After construction and after every import no two slots
\* record the same non-empty keybind.
C17_CollidingKeybindIsCleared ==
    /\ \A i, j \in DOMAIN cell_type_gui_and_data :
          (i # j /\ cell_type_gui_and_data[i].keybind = cell_type_gui_and_data[j].keybind)
              => cell_type_gui_and_data[i].keybind = ""
    /\ \A i \in DOMAIN cell_type_gui_and_data :
          cell_type_gui_and_data[i].keybind # "" =>
              keymap[cell_type_gui_and_data[i].keybind] = BoundToSlot(i)
    /\ \A i, j \in DOMAIN initial_config :
          (i < j /\ initial_config[i].keybind = initial_config[j].keybind
                 /\ initial_config[i].keybind # ""
                 /\ \A k \in 1..(i - 1) :
                       initial_config[k].keybind # initial_config[i].keybind)
              => /\ cell_type_gui_and_data[i].keybind = initial_config[i].keybind
                 /\ cell_type_gui_and_data[j].keybind = ""

\* an import made two slots that were both to get 'y': the first has it,
\* the second has no keybind
C17_Witness ==
    /\ last.op = "read_points_from_df"
    /\ Len(cell_type_gui_and_data) = 8
    /\ initial_config[7].keybind = "y"
    /\ initial_config[8].keybind = "y"
    /\ cell_type_gui_and_data[7].keybind = "y"
    /\ cell_type_gui_and_data[8].keybind = ""

\* this step is read_points_from_df; the table is last'.arg
Imported ==
    last'.op = "read_points_from_df"

\* the labels of the table just imported
LabelsOf(data) ==
    {data[k].cell_type : k \in DOMAIN data}

\* the points of the rows labelled l, in table order
PointsLabelled(data, l) ==
    LET rows == SelectSeq(data, LAMBDA row : row.cell_type = l)
    IN  [k \in DOMAIN rows |-> rows[k].p]

\* before the import, l named a slot whose layer was empty
NamesEmptySlot(l) ==
    \E i \in DOMAIN cell_type_gui_and_data :
        /\ cell_type_gui_and_data[i].name = l
        /\ cell_type_gui_and_data[i].data = <<>>

\* C18: read_points_from_df puts all the rows of a label that is the name of
\* an existing slot with an empty layer into that slot and makes no new slot
\* for that label; the number of slots grows by exactly the number of
\* distinct labels that do not name an existing empty slot.
C18_ImportFillsEmptySlots ==
    [][Imported =>
        /\ \A i \in DOMAIN cell_type_gui_and_data :
              (cell_type_gui_and_data[i].data = <<>>
                    /\ cell_type_gui_and_data[i].name \in LabelsOf(last'.arg))
                => cell_type_gui_and_data'[i].data =
                      PointsLabelled(last'.arg, cell_type_gui_and_data[i].name)
        /\ Len(cell_type_gui_and_data') = Len(cell_type_gui_and_data)
              + Cardinality({l \in LabelsOf(last'.arg) : ~NamesEmptySlot(l)})]_vars

\* the labels that get a slot of their own, in sorted order
NewLabels(data) ==
    SelectSeq(LabelOrder, LAMBDA l : l \in LabelsOf(data) /\ ~NamesEmptySlot(l))

\* the names of the slots before position i, after the import
SlotNamesBefore(i) ==
    {cell_type_gui_and_data'[j].name : j \in 1..(i - 1)}

\* C19: read_points_from_df appends, after all existing slots and in sorted
\* label order, exactly one new slot for every label that names no existing
\* slot or names one that holds points; the new slot holds exactly the rows
\* of its label in table order; it is named by the label if no slot has
\* that name, else by the label with the smallest free ' [n]' suffix; the
\* slot names stay pairwise distinct.
C19_ImportAppendsNewSlots ==
    [][Imported =>
        LET old == Len(cell_type_gui_and_data)
            new == NewLabels(last'.arg)
        IN  /\ Len(cell_type_gui_and_data') = old + Len(new)
            /\ \A i \in 1..old :
                  cell_type_gui_and_data'[i].name = cell_type_gui_and_data[i].name
            /\ \A k \in DOMAIN new :
                  LET slot == cell_type_gui_and_data'[old + k]
                  IN  /\ slot.data = PointsLabelled(last'.arg, new[k])
                      /\ IF new[k] \notin SlotNamesBefore(old + k)
                         THEN slot.name = new[k]
                         ELSE \E n \in 1..(old + k) :
                                /\ slot.name = NameBracket(new[k], n)
                                /\ slot.name \notin SlotNamesBefore(old + k)
                                /\ \A m \in 1..(n - 1) :
                                      NameBracket(new[k], m) \in SlotNamesBefore(old + k)
            /\ \A i, j \in DOMAIN cell_type_gui_and_data' :
                  i # j => cell_type_gui_and_data'[i].name # cell_type_gui_and_data'[j].name]_vars

\* this step imports a table with the labels '1' and '2' into a session
\* whose only slot is named '2'
ImportedOverTwo ==
    /\ Imported
    /\ [i \in DOMAIN cell_type_gui_and_data |-> cell_type_gui_and_data[i].name]
          = <<Name("2")>>
    /\ LabelsOf(last'.arg) = {Name("1"), Name("2")}

\* the last slot after the step
LastSlot ==
    cell_type_gui_and_data'[Len(cell_type_gui_and_data')]

LoadedBack ==
    last'.op = "load_save_loop"

\* the slot of the fresh session that has the name of slot i
SlotLoaded(i) ==
    {j \in DOMAIN cell_type_gui_and_data' :
        cell_type_gui_and_data'[j].name = cell_type_gui_and_data[i].name}

\* C21 as stated: importing the table save_points_to_df gives into a fresh
\* session reproduces, for each slot of the source session, a slot with the
\* same name and the same points; no point is lost, duplicated or moved to
\* a slot of another name.
C21_RoundTripKeepsEverySlot ==
    [][LoadedBack =>
        /\ \A i \in DOMAIN cell_type_gui_and_data :
              \E j \in SlotLoaded(i) :
                  cell_type_gui_and_data'[j].data = cell_type_gui_and_data[i].data
        /\ TotalPoints(cell_type_gui_and_data') = TotalPoints(cell_type_gui_and_data)]_vars

\* C21, amended: the round trip reproduces each slot of the source session
\* that holds at least one point, with its name and its points in order; a
\* slot without points is in the fresh session only if the fresh session
\* has a slot of that name of its own; no point is lost, duplicated or
\* moved to a slot of another name.
C21_RoundTripKeepsFilledSlots ==
    [][LoadedBack =>
        /\ \A i \in DOMAIN cell_type_gui_and_data :
              cell_type_gui_and_data[i].data # <<>> =>
                  /\ Cardinality(SlotLoaded(i)) = 1
                  /\ \A j \in SlotLoaded(i) :
                        cell_type_gui_and_data'[j].data = cell_type_gui_and_data[i].data
        /\ \A j \in DOMAIN cell_type_gui_and_data' :
              cell_type_gui_and_data'[j].data # <<>> =>
                  \E i \in DOMAIN cell_type_gui_and_data : j \in SlotLoaded(i)
        /\ TotalPoints(cell_type_gui_and_data') = TotalPoints(cell_type_gui_and_data)]_vars

\* a session with points in two slots, one of them made by an import, came
\* back from the round trip
C21_Witness ==
    /\ last.op = "load_save_loop"
    /\ Len(last.arg) = 3
    /\ \E i, j \in DOMAIN cell_type_gui_and_data :
          /\ cell_type_gui_and_data[i].name = Name("A")
          /\ Len(cell_type_gui_and_data[i].data) = 1
          /\ cell_type_gui_and_data[j].name = NameBracket(Name("A"), 1)
          /\ Len(cell_type_gui_and_data[j].data) = 2

\* how many rows the slots before slot i give
RowsBefore(i) ==
    TotalPoints(SubSeq(cell_type_gui_and_data, 1, i - 1))

\* C22: save_points_to_df returns one row per point of the session and
\* nothing else, grouped in slot order and within a slot in layer order,
\* each row with its slot's name, under the columns (cell_type, z, y, x);
\* a session without points gives no rows under those columns; the call
\* changes nothing of the session.
C22_SaveGivesOneRowPerPoint ==
    [][last'.op = "save_points_to_df" =>
        /\ df'[1].columns = <<"cell_type", "z", "y", "x">>
        /\ Len(df'[1].rows) = TotalPoints(cell_type_gui_and_data)
        /\ \A i \in DOMAIN cell_type_gui_and_data :
              \A n \in DOMAIN cell_type_gui_and_data[i].data :
                  df'[1].rows[RowsBefore(i) + n] =
                      [cell_type |-> cell_type_gui_and_data[i].name,
                       p |-> cell_type_gui_and_data[i].data[n]]
        /\ UNCHANGED << cell_type_gui_and_data, undo_stack, pointer_type_state,
                        gui_lock, out_of_slice_points, pointer, initial_config,
                        keymap >>]_vars

\* a session with points in two slots was exported
C22_Witness ==
    /\ last.op = "save_points_to_df"
    /\ Len(df[1].rows) = 3
    /\ Len(cell_type_gui_and_data[1].data) = 1
    /\ Len(cell_type_gui_and_data[2].data) = 2
    /\ df[1].rows[1].cell_type # df[1].rows[2].cell_type

\* this step ran _reconstruct_selected on layer_points and the labels layer
Reconstructed ==
    last'.op \in {"process_output", "errored", "reconstruct_selected"}

\* the voxel index lies in the volume on every axis
InVolume(c, labels_layer) ==
    \A a \in 1..3 : 0 <= c[a] /\ c[a] < labels_layer.shape[a]

\* the points that map into the volume
PointsInVolume ==
    SelectSeq(layer_points,
              LAMBDA d : InVolume(VoxelOf(d, layer_labels.layer), layer_labels.layer))

\* the points that map into the volume and onto a label other than 0
Surviving ==
    SelectSeq(PointsInVolume,
              LAMBDA d : layer_labels.layer.data[VoxelOf(d, layer_labels.layer)] # 0)

\* the labels the surviving points lie on
LabelsHit ==
    {layer_labels.layer.data[VoxelOf(Surviving[k], layer_labels.layer)] :
        k \in DOMAIN Surviving}

\* the mask of the labels hit
MaskOfLabelsHit ==
    [v \in DOMAIN layer_labels.layer.data |->
        IF layer_labels.layer.data[v] \in LabelsHit THEN MaskValue ELSE 0]

\* C23: when no point survives the filtering, as when every point of a
\* non-empty layer lies on background, _reconstruct_selected returns the
\* empty result and its caller makes no image layer.
C23_NoSurvivorGivesEmptyResult ==
    [][(Reconstructed /\ Surviving = <<>>) =>
        /\ rec'[1] = Ok(NoKwargs)
        /\ images' = images]_vars

\* C24: every point whose voxel index lies outside the volume on some axis
\* is dropped and the reconstruction goes on with the other points: the
\* call does not fail, and a mask it returns is the mask of the labels the
\* points inside the volume lie on.
C24_PointsOutsideAreDropped ==
    [][Reconstructed =>
        /\ rec'[1].ok
        /\ rec'[1].val.keys # {} => rec'[1].val.data = MaskOfLabelsHit]_vars

\* the mask this step returned is as C25 describes it
MaskAsDescribed ==
    LET data == rec'[1].val.data
    IN  /\ \A v \in DOMAIN data :
              data[v] = IF layer_labels.layer.data[v] \in LabelsHit
                        THEN MaskValue ELSE 0
        /\ MaskValue # 0
        /\ \A v, w \in DOMAIN data :
              (/\ layer_labels.layer.data[v] \in LabelsHit
               /\ layer_labels.layer.data[w] \in LabelsHit
               /\ layer_labels.layer.data[v] # layer_labels.layer.data[w])
                  => data[v] + data[w] = 2 * MaskValue

\* C25: a mask that is returned is set, to one value other than 0, at the
\* voxels whose label is one of the labels other than 0 that the
\* surviving points lie on, and is 0 at every other voxel; two labels hit,
\* read at one voxel each, sum to twice the value.
C25_MaskIsTheLabelsHit ==
    [][(Reconstructed /\ rec'[1].ok /\ rec'[1].val.keys # {}) =>
        MaskAsDescribed]_vars

\* the points handed to split_on_shapes, and whether a point lies in one
\* of the polygons
SplitInputs ==
    PointsOfLayers(celltypes)

InSomePolygon(point) ==
    \E k \in DOMAIN layer_shapes.data :
        <<point.p[2], point.p[3]>> \in layer_shapes.data[k].region

\* C26: split_on_shapes returns None when a point of any layer lies in no
\* polygon, when there are no polygons and when there are no points;
\* otherwise it returns one row per point, over all layers in order, with
\* the point, the name of its layer and the index of a polygon that holds it
C26_SplitIsAllOrNothing ==
    split # None =>
        IF \/ layer_shapes.data = <<>>
           \/ SplitInputs = <<>>
           \/ \E k \in DOMAIN SplitInputs : ~InSomePolygon(SplitInputs[k])
        THEN split[1] = None
        ELSE /\ split[1] # None
             /\ Len(split[1][1]) = Len(SplitInputs)
             /\ \A k \in DOMAIN SplitInputs :
                    LET row == split[1][1][k]
                    IN  /\ row.p = SplitInputs[k].p
                        /\ row.name = SplitInputs[k].name
                        /\ row.shape_idx + 1 \in DOMAIN layer_shapes.data
                        /\ <<row.p[2], row.p[3]>>
                               \in layer_shapes.data[row.shape_idx + 1].region

\* a table came back for two layers whose points lie in different polygons
C26_Witness ==
    /\ split # None
    /\ split[1] # None
    /\ Len(celltypes) = 2
    /\ Len(split[1][1]) = 2
    /\ split[1][1][1].shape_idx # split[1][1][2].shape_idx

\* C27: while a worker of ReconstructSelected or of SplitOnShapes is in
\* flight the run button of its widget is disabled, whatever layer events
\* arrive in between
C27_ButtonOffWhileWorkerRuns ==
    /\ rs.workers # <<>> => ~rs.run_button
    /\ sos.workers > 0 => ~sos.run_button

GetOps ==
    {"ReconstructSelected", "IngressPoints", "reset_boxes", "next_cell_type",
     "prev_cell_type"}

\* C29: get_n3d_counter returns the docked session when there is one and
\* leaves the dock as it is, and otherwise makes one session and docks it;
\* calls that follow each other return the same session, and the viewer
\* never has a second one
C29_OneSessionPerViewer ==
    [][last'.op \in GetOps =>
          /\ IF dock.dock_widgets # <<>>
             THEN /\ dock' = dock
                  /\ last'.arg = <<dock.dock_widgets[1]>>
             ELSE /\ dock'.made = dock.made + 1
                  /\ dock'.dock_widgets = last'.arg
          /\ last.op \in GetOps => last'.arg = last.arg
          /\ dock'.made = 1
          /\ Len(dock'.dock_widgets) = 1
      ]_vars

\* the session was made by get_n3d_counter, both widgets were opened after
\* it and a command has found the same session
C29_Witness ==
    /\ dock.got = 1
    /\ dock.made = 1
    /\ rs.made
    /\ ip.made
    /\ last.op = "prev_cell_type"
    /\ last.arg = dock.dock_widgets

\* C30: IngressPoints.run appends the points of the source layer, in world
\* coordinates and in order, to the slot selected in the widget, changes no
\* other slot and not the source layer, and pushes one undo entry per point;
\* an undo right after a run on a source of one point takes that point out
\* of the slot again
C30_IngressAppendsAndRecords ==
    [][/\ (last'.op = "IngressPoints.run" /\ layer_source.present) =>
            LET i == last'.arg[1]
                coordinates == [k \in DOMAIN layer_source.data |->
                                   [a \in 1..3 |-> layer_source.data[k][a]
                                                       * layer_source.scale]]
            IN  /\ cell_type_gui_and_data'[i].data
                       = cell_type_gui_and_data[i].data \o coordinates
                /\ \A j \in DOMAIN cell_type_gui_and_data :
                       j # i => cell_type_gui_and_data'[j].data
                                    = cell_type_gui_and_data[j].data
                /\ layer_source' = layer_source
                /\ undo_stack' = undo_stack \o [k \in DOMAIN coordinates |-> i]
       /\ ( /\ last.op = "IngressPoints.run"
            /\ layer_source.present
            /\ Len(layer_source.data) = 1
            /\ last'.op = "undo" ) =>
            LET i == last.arg[1]
            IN  /\ cell_type_gui_and_data'[i].data
                       = Front(cell_type_gui_and_data[i].data)
                /\ undo_stack' = Front(undo_stack)
                /\ \A j \in DOMAIN cell_type_gui_and_data :
                       j # i => cell_type_gui_and_data'[j].data
                                    = cell_type_gui_and_data[j].data
      ]_vars

\* a point of a scaled source layer was ingested into a slot that is not
\* the active one and held a point already, and the undo took it out again
C30_Witness ==
    /\ last.op = "undo"
    /\ layer_source.present
    /\ layer_source.scale = 2
    /\ Len(layer_source.data) = 1
    /\ \E i \in DOMAIN cell_type_gui_and_data :
           /\ i # pointer_type_state
           /\ Len(cell_type_gui_and_data[i].data) = 1
           /\ Len(history) = 1
           /\ history[1][1] = i

\* what the trace notes for a mutation of slot i
Mutation(op, i, locked, pushed) ==
    [op |-> op, slot |-> i, locked |-> locked, pushed |-> pushed]

\* C31 as stated: every append new_pointer_point makes to the active slot's
\* layer happens with gui_lock held and handle_data_changed pushes nothing
\* for it, and the undo stack still grows by the active slot
C31_AppendIsUnderTheLock ==
    [][last'.op = "click" =>
          /\ \A k \in DOMAIN last'.trace :
                 last'.trace[k].op = "add" =>
                     last'.trace[k].locked /\ last'.trace[k].pushed = 0
          /\ undo_stack' = Append(undo_stack, pointer_type_state)
      ]_vars

\* C31: new_pointer_point appends the point to the active slot's layer with
\* gui_lock free, and handle_data_changed pushes the one undo entry on the
\* notification of that append; only the second add and its removal, which
\* leave no point behind, happen with the lock held and push nothing
C31_AppendIsRecordedByTheHandler ==
    [][last'.op = "click" =>
          /\ last'.trace = << Mutation("add", pointer_type_state, FALSE, 1),
                              Mutation("add", pointer_type_state, TRUE, 0),
                              Mutation("remove", pointer_type_state, TRUE, 0) >>
          /\ undo_stack' = Append(undo_stack, pointer_type_state)
          /\ cell_type_gui_and_data'[pointer_type_state].data
                 = Append(cell_type_gui_and_data[pointer_type_state].data,
                          last'.arg[1])
      ]_vars

\* a click has added a second point
C31_Witness ==
    /\ last.op = "click"
    /\ Len(last.trace) = 3
    /\ Len(undo_stack) = 2
    /\ TotalPoints(cell_type_gui_and_data) = 2

(***************************************************************************)
(* Points added directly in the viewer, as in test_manual_add and          *)
(* test_undo_from_manual_add_across_states: layer.add on a slot's layer,   *)
(* the Undo button and the slots' buttons.                                 *)
(***************************************************************************)
MaxManual == 4      \* direct adds in one run

\* the user adds a point to a slot's layer in the viewer
ManualAdd ==
    \E i \in 1..Len(cell_type_gui_and_data), c \in Coords :
        /\ edits < MaxManual
        /\ TotalPoints(cell_type_gui_and_data) < MaxPoints
        /\ Commit(LayerAdd(State, i, <<c>>), Op("layer.add", <<i, c>>))
        /\ edits' = edits + 1
        /\ UNCHANGED <<imports, history>>

NextManual ==
    \/ ManualAdd
    \/ Undo
    \/ ChangeStateTo

\* direct adds, undo and state changes only
SpecManual ==
    Init /\ [][NextManual]_vars

\* the notifications events.data carries
DataActions ==
    {"adding", "added", "removing", "removed", "changing", "changed"}

\* handle_data_changed on the session as it is, with gui_lock held and free
HandlerPushesOnce ==
    \A i \in 1..Len(cell_type_gui_and_data), action \in DataActions :
        /\ handle_data_changed(acquire(State), i, action) = acquire(State)
        /\ handle_data_changed(State, i, "added") = State
        /\ action # "added" =>
               LET after == handle_data_changed(State, i, action)
               IN  /\ after.undo_stack = Append(undo_stack, i)
                   /\ after.pointer_type_state = pointer_type_state
                   /\ \A j \in 1..Len(cell_type_gui_and_data) :
                          after.slots[j].data = cell_type_gui_and_data[j].data

\* C32: handle_data_changed changes nothing when gui_lock is held or the
\* action is "added", and otherwise pushes exactly one entry, the slot of
\* the source layer; a direct add of one point grows the undo stack by
\* exactly that slot, each undo takes the newest directly added point out
\* of its slot again, and the stack is as long as there are points, so it
\* is empty exactly when every layer is
C32_DirectAddsAreUndoneOneByOne ==
    [][/\ HandlerPushesOnce
       /\ last'.op = "layer.add" =>
              LET i == last'.arg[1]
              IN  /\ last'.trace = <<Mutation("add", i, FALSE, 1)>>
                  /\ undo_stack' = Append(undo_stack, i)
                  /\ cell_type_gui_and_data'[i].data
                         = Append(cell_type_gui_and_data[i].data, last'.arg[2])
                  /\ \A j \in DOMAIN cell_type_gui_and_data :
                         j # i => cell_type_gui_and_data'[j].data
                                      = cell_type_gui_and_data[j].data
       /\ last'.op = "undo" /\ undo_stack # <<>> =>
              LET i == undo_stack[Len(undo_stack)]
              IN  /\ undo_stack' = Front(undo_stack)
                  /\ cell_type_gui_and_data'[i].data
                         = Front(cell_type_gui_and_data[i].data)
                  /\ \A j \in DOMAIN cell_type_gui_and_data :
                         j # i => cell_type_gui_and_data'[j].data
                                      = cell_type_gui_and_data[j].data
       /\ Len(undo_stack') = TotalPoints(cell_type_gui_and_data')
      ]_vars

\* a point was added directly to each of two slots, and two undos have
\* emptied the stack and the layers
C32_Witness ==
    /\ last.op = "undo"
    /\ edits = 2
    /\ Len(cell_type_gui_and_data) = 2
    /\ undo_stack = <<>>
    /\ TotalPoints(cell_type_gui_and_data) = 0
    /\ pointer_type_state = 2

\* the last two components of every point of every slot, in slot order
ProjectionOf(slots) ==
    LET RECURSIVE stack(_)
        stack(i) == IF i > Len(slots) THEN <<>>
                    ELSE [k \in 1..Len(slots[i].data) |->
                             <<slots[i].data[k][2], slots[i].data[k][3]>>]
                         \o stack(i + 1)
    IN  stack(1)

\* C33: whenever no operation of the session is executing, the out-of-slice
\* projection holds exactly the last two components of every point of
\* every slot, in slot order
C33_ProjectionFollowsTheLayers ==
    out_of_slice_points = ProjectionOf(cell_type_gui_and_data)

\* C34: after every completed new_pointer_point and every completed undo
\* the button of the slot the point went to or came from shows the number
\* of points the slot holds now, one more or one fewer than before
C34_ButtonShowsTheCount ==
    [][/\ \/ last'.op = "click"
          \/ last'.op = "new_pointer_point" /\ last'.arg[1] = "added"
          =>  LET i == pointer_type_state
              IN  /\ cell_type_gui_and_data'[i].button
                         = Len(cell_type_gui_and_data'[i].data)
                  /\ cell_type_gui_and_data'[i].button
                         = Len(cell_type_gui_and_data[i].data) + 1
       /\ last'.op = "undo" /\ undo_stack # <<>> =>
              LET i == undo_stack[Len(undo_stack)]
              IN  /\ cell_type_gui_and_data'[i].button
                         = Len(cell_type_gui_and_data'[i].data)
                  /\ cell_type_gui_and_data'[i].button
                         = Len(cell_type_gui_and_data[i].data) - 1
      ]_vars

\* test_name_counter: two points were added through the pointer and one
\* was undone, and the button of the active slot shows 1
C34_Witness ==
    /\ last.op = "undo"
    /\ Len(undo_stack) = 1
    /\ cell_type_gui_and_data[pointer_type_state].button = 1
    /\ Len(cell_type_gui_and_data[pointer_type_state].data) = 1
    /\ Len(history) = 1
    /\ history[1][1] = pointer_type_state

\* C35: default filling never runs out: for every request list whose
\* out_of_slice_point_size values agree, process_cell_type_config returns a
\* resolved list as long as the request list, also when every palette color
\* or every default key is asked for explicitly; a size mismatch is its
\* only failure
C35_DefaultsNeverRunOut ==
    cfg_out # Pending =>
        /\ ~SizesDisagree =>
               cfg_out.ok /\ Len(cfg_out.val) = Len(cfg_requests)
        /\ ~cfg_out.ok => SizesDisagree /\ cfg_out.err = "ValueError"

\* C36: whenever the run button of ReconstructSelected is enabled, a
\* cell-type layer and a labels layer are selected and exist in the viewer,
\* and whenever the run button of SplitOnShapes is enabled, a shapes layer
\* is selected and exists, also after a worker's result was processed and
\* after layers were removed while a worker was running
C36_EnabledButtonHasItsLayers ==
    /\ rs.made /\ rs.run_button => CellTypes # <<>> /\ layer_labels.present
    /\ sos.made /\ sos.run_button => layer_shapes.present

\* both widgets in a viewer whose labels volume has a label at the origin
InitAuxFair ==
    /\ InitAux
    /\ layer_labels.layer.data[<<0, 0, 0>>] = 1

\* the widgets with their workers scheduled: a started worker thread ends,
\* by returning or by raising, and a returned result is delivered
SpecAuxFair ==
    /\ InitAuxFair
    /\ [][NextAux]_vars
    /\ WF_vars(WorkerReturns)
    /\ WF_vars(SplitReturns)

\* C37: every run that starts a worker is eventually followed by the run
\* button of its widget being enabled again, whatever the worker's outcome:
\* a result, an empty reconstruction, a split that returned None, or a
\* failure inside the worker
C37_RunIsFollowedByEnabledButton ==
    /\ (last.op = "ReconstructSelected.run" /\ last.arg[1] = "started")
           ~> rs.run_button
    /\ (last.op = "SplitOnShapes.run" /\ last.arg[1] = "started")
           ~> sos.run_button

\* C38: read_points_from_df never changes which slot is active, never
\* removes or reorders an existing slot, never changes the points of an
\* existing slot that holds points, and never changes the name, the color
\* or the keybind of an existing slot: an empty slot stays empty or gets
\* the rows of the label that is its name, and every other row is in a
\* slot appended after the existing ones
C38_ImportOnlyFillsAndAppends ==
    [][Imported =>
        /\ pointer_type_state' = pointer_type_state
        /\ Len(cell_type_gui_and_data') >= Len(cell_type_gui_and_data)
        /\ \A i \in DOMAIN cell_type_gui_and_data :
               LET before == cell_type_gui_and_data[i]
                   after == cell_type_gui_and_data'[i]
               IN  /\ after.name = before.name
                   /\ after.color = before.color
                   /\ after.keybind = before.keybind
                   /\ before.data # <<>> => after.data = before.data
                   /\ before.data = <<>> =>
                          after.data \in {<<>>, PointsLabelled(last'.arg, before.name)}
        /\ \A j \in DOMAIN cell_type_gui_and_data' :
               j > Len(cell_type_gui_and_data) =>
                   \E l \in LabelsOf(last'.arg) :
                       cell_type_gui_and_data'[j].data = PointsLabelled(last'.arg, l)
      ]_vars

\* an import into a session whose second slot is active and whose first
\* slot holds a point: an empty slot was filled and a slot was appended
C38_Witness ==
    /\ last.op = "read_points_from_df"
    /\ pointer_type_state = 2
    /\ Len(cell_type_gui_and_data) = 3
    /\ history # <<>>
    /\ \A i \in 1..3 : cell_type_gui_and_data[i].data # <<>>
    /\ \E k \in DOMAIN last.arg : last.arg[k].cell_type = cell_type_gui_and_data[1].name

\* configurations that ask for the key of the undo binding
UndoKeyConfigs ==
    { Some(<< CellTypeConfig(None, None, Some("u"), None),
              CellTypeConfig(None, None, Some("q"), None) >>),
      Some(<< CellTypeConfig(Some(Name("A")), None, None, None),
              CellTypeConfig(Some(Name("B")), None, Some("u"), None) >>) }

InitUndoKey ==
    Constructed(CollidingConfigs \cup UndoKeyConfigs)

\* the sessions whose configuration asks for a key that is taken, by an
\* earlier slot or by undo: the bound keys are pressed, tables are imported
SpecUndoKey ==
    InitUndoKey /\ [][NextKeys]_vars

\* C39: for every slot that records a non-empty keybind, the host has that
\* key bound to the slot's state change, so pressing it makes the slot
\* active: no recorded keybind is bound to another slot or to undo
C39_RecordedKeybindSelectsItsSlot ==
    \A i \in DOMAIN cell_type_gui_and_data :
        LET k == cell_type_gui_and_data[i].keybind
        IN  k # "" =>
                /\ keymap[k] = BoundToSlot(i)
                /\ change_state_to(State, keymap[k].slot).pointer_type_state = i

\* C40: gui_lock is free whenever a handler has returned to the host's
\* event loop; the two asserted non-blocking acquires of new_pointer_point
\* both succeed and the blocking acquire of undo finds the lock free, in
\* every sequence of pointer events, layer events, button and key presses
\* and imports, the events raised inside a handler included
C40_LockIsFreeBetweenHandlers ==
    [][/\ ~gui_lock
       /\ ~gui_lock'
       /\ ~last'.blocked
       /\ last'.op = "click" => last'.acquires = 2
       /\ (last'.op = "new_pointer_point" /\ last'.arg[1] = "added")
              => last'.acquires = 2
       /\ last'.op = "undo" =>
              last'.acquires = IF undo_stack = <<>> THEN 0 ELSE 1
      ]_vars

\* after a direct layer edit and a click, an undo took the lock once
C40_Witness ==
    /\ last.op = "undo"
    /\ last.acquires = 1
    /\ ~last.blocked
    /\ ~gui_lock
    /\ edits = 1
    /\ history # <<>>

====
